---- MODULE Spec2Model ----
(***************************************************************************)
(* A model of the vezor-python SDK client (src/vezor/client.py) and its    *)
(* error classifier (src/vezor/exceptions.py).                             *)
(*                                                                         *)
(* One client instance issues calls.  A call sends one or more HTTP        *)
(* requests through requests.Session; the remote side either answers with  *)
(* a status and a body, fails at the network level, or stays silent.       *)
(***************************************************************************)
EXTENDS Integers, Sequences, FiniteSets, TLC

VARIABLES
    token,            \* VezorClient.token
    organization_id,  \* VezorClient.organization_id
    session_headers,  \* VezorClient.session.headers
    pc,               \* position of the caller: "idle", "awaiting", "done"
    call,             \* the operation in progress and its arguments
    sent,             \* the requests the current call has handed to the transport
    wire,             \* what the transport holds for the request in flight
    outcome,          \* how the last call ended: a returned value or a raised error
    result,           \* get_secret_by_name's local `result`: the secrets listed
    store,            \* the secrets the remote server holds, in listing order
    issued,           \* how many secret ids the remote server has given out
    groups,           \* the groups the remote server holds: name -> tag filter
    journal,          \* what the caller has learnt from the calls that returned
    console,          \* the lines a command of vezor_cli.py has printed
    local             \* the user's machine: config file, environment, keyring

vars == <<token, organization_id, session_headers, pc, call, sent, wire, outcome, result, store, issued, groups, journal, console, local>>

\* The client instance; the remote side.
clientVars == <<token, organization_id, session_headers>>

----------------------------------------------------------------------------
(* Python values *)

\* Python's None, for optional str arguments and attributes.
None == "<None>"

\* Python truthiness of an Optional[str]: None and "" are falsy.
Truthy(x) == x # None /\ x # ""

\* An absent key of a dict.
Absent == "<absent>"

Last(s) == s[Len(s)]

----------------------------------------------------------------------------
(* JSON bodies.  A decoded body is a record                                 *)
(*   [kind, error, message, extra]                                          *)
(* kind  : "object", "array" or "null"                                      *)
(* error, message : the value of that field of an object, or Absent         *)
(* extra : the value of the object's field "detail", or Absent              *)

NotJson == [kind |-> "<not json>", error |-> Absent, message |-> Absent, extra |-> Absent]
NoneValue == [kind |-> "None", error |-> Absent, message |-> Absent, extra |-> Absent]

JsonObject(e, m, x) == [kind |-> "object", error |-> e, message |-> m, extra |-> x]

\* The response texts the remote side may send.
Bodies ==
    { "{\"error\":\"denied\"}",
      "{\"message\":\"later\"}",
      "{\"error\":\"denied\",\"message\":\"later\"}",
      "{\"detail\":\"x\"}",
      "[\"a\"]",
      "null",
      "Bad Gateway",
      "" }

\* requests.Response.json(): the decoded text, or NotJson when decoding raises.
ResponseJson(text) ==
    CASE text = "{\"error\":\"denied\"}" -> JsonObject("denied", Absent, Absent)
      [] text = "{\"message\":\"later\"}" -> JsonObject(Absent, "later", Absent)
      [] text = "{\"error\":\"denied\",\"message\":\"later\"}" -> JsonObject("denied", "later", Absent)
      [] text = "{\"detail\":\"x\"}" -> JsonObject(Absent, Absent, "x")
      [] text = "[\"a\"]" -> [kind |-> "array", error |-> Absent, message |-> Absent, extra |-> Absent]
      [] text = "null" -> [kind |-> "null", error |-> Absent, message |-> Absent, extra |-> Absent]
      [] OTHER -> NotJson

\* The HTTP statuses the remote side may answer with.
Statuses == {200, 201, 204, 301, 304, 400, 401, 403, 404, 409, 422, 429, 500, 502, 503}

Responses == [status : Statuses, text : Bodies]

----------------------------------------------------------------------------
(* src/vezor/exceptions.py *)

\* How a call ends.  kind is "return" or "raise"; error is the exception
\* class; status_code and response are VezorAPIError's attributes, the
\* status_code {} for None and {n} for the integer n.
Returned(v) ==
    [kind |-> "return", error |-> "", message |-> "", status_code |-> {},
     response |-> NoneValue, value |-> v]

Raised(cls, msg, code, payload) ==
    [kind |-> "raise", error |-> cls, message |-> msg, status_code |-> code,
     response |-> payload, value |-> NoneValue]

NoOutcome ==
    [kind |-> "none", error |-> "", message |-> "", status_code |-> {},
     response |-> NoneValue, value |-> NoneValue]

\* A classifier that takes only the server errors for failures.
ResponseOkBelow500(response) == response.status < 500

\* requests.Response.ok: raise_for_status() of requests raises for 400..599 only.
ResponseOk(response) == ~(400 <= response.status /\ response.status < 600)

\* The try block of raise_for_status: response.json() and the two .get calls
\* succeed only when the body decodes to an object.
ErrorBodyParsed(response) == ResponseJson(response.text).kind = "object"

\* The name error_data is bound as soon as response.json() has returned,
\* also when the following .get raises.
ErrorDataBound(response) == ResponseJson(response.text) # NotJson

ErrorMessage(response) ==
    LET error_data == ResponseJson(response.text) IN
    IF ErrorBodyParsed(response)
    THEN IF error_data.error # Absent THEN error_data.error
         ELSE IF error_data.message # Absent THEN error_data.message
         ELSE response.text
    ELSE IF response.text # "" THEN response.text
         ELSE "HTTP " \o ToString(response.status)

ErrorPayload(response) ==
    IF ErrorDataBound(response) THEN ResponseJson(response.text) ELSE NoneValue

\* A classifier that tells 404 from the generic error only when the body parsed.
raise_for_status_body_first(response) ==
    IF ResponseOk(response) THEN NoOutcome
    ELSE IF response.status = 401 THEN Raised("VezorAuthError", ErrorMessage(response), {}, NoneValue)
    ELSE IF response.status = 403 THEN Raised("VezorPermissionError", ErrorMessage(response), {}, NoneValue)
    ELSE IF response.status = 404 /\ ErrorBodyParsed(response)
         THEN Raised("VezorNotFoundError", ErrorMessage(response), {}, NoneValue)
    ELSE IF response.status = 400 THEN Raised("VezorValidationError", ErrorMessage(response), {}, NoneValue)
    ELSE Raised("VezorAPIError", ErrorMessage(response), {response.status}, ErrorPayload(response))

\* raise_for_status(response): NoOutcome when it returns, else the error raised.
raise_for_status(response) ==
    IF ResponseOk(response) THEN NoOutcome
    ELSE IF response.status = 401 THEN Raised("VezorAuthError", ErrorMessage(response), {}, NoneValue)
    ELSE IF response.status = 403 THEN Raised("VezorPermissionError", ErrorMessage(response), {}, NoneValue)
    ELSE IF response.status = 404 THEN Raised("VezorNotFoundError", ErrorMessage(response), {}, NoneValue)
    ELSE IF response.status = 400 THEN Raised("VezorValidationError", ErrorMessage(response), {}, NoneValue)
    ELSE Raised("VezorAPIError", ErrorMessage(response), {response.status}, ErrorPayload(response))

----------------------------------------------------------------------------
(* src/vezor/client.py: construction and the session headers *)

USER_AGENT == "vezor-python/2.0.0"

\* f'Bearer {token}'
Bearer(t) == "Bearer " \o t

\* dict.update(new): the keys of new replace those of old.
DictUpdate(old, new) == new @@ old

EmptyDict == <<>>

\* The token and organization id arguments a caller may pass (type str).
Tokens == {"", "t1", "t2"}
OrgIds == {"", "o1", "o2"}

\* VezorClient.__init__: the headers the new session starts with.
InitHeaders(t, o) ==
    LET h0 == DictUpdate(EmptyDict, "User-Agent" :> USER_AGENT)
        h1 == IF Truthy(t) THEN DictUpdate(h0, "Authorization" :> Bearer(t)) ELSE h0
    IN  IF Truthy(o) THEN DictUpdate(h1, "X-Organization-Id" :> o) ELSE h1

\* VezorClient.set_token / set_organization: the header is replaced unconditionally.
SetTokenHeaders(h, t) == DictUpdate(h, "Authorization" :> Bearer(t))
SetOrganizationHeaders(h, o) == DictUpdate(h, "X-Organization-Id" :> o)

\* requests.Session.request merges the per-request headers over the session's.
SentHeaders(h, request_headers) == DictUpdate(h, request_headers)

----------------------------------------------------------------------------
(* The transport *)

\* What session.request holds: nothing, a request without answer yet, a
\* response (status, text, and in `data` the secrets a JSON body of the
\* secrets endpoints decodes to), or the exception it raises.
Idle == [kind |-> "idle", status |-> 0, text |-> "", exc |-> "", data |-> <<>>]
Pending == [kind |-> "pending", status |-> 0, text |-> "", exc |-> "", data |-> <<>>]
Answer(r) == [kind |-> "response", status |-> r.status, text |-> r.text, exc |-> "", data |-> <<>>]
Failure(e) == [kind |-> "failure", status |-> 0, text |-> "", exc |-> e, data |-> <<>>]

\* VezorClient._request passes **kwargs on to session.request; no caller in
\* client.py puts a timeout among them, so requests waits without limit.
RequestTimeout == None

\* A request under the headers the client was constructed with.
RequestUnderFirstHeaders(method, endpoint, params, request_headers) ==
    [method |-> method, endpoint |-> endpoint, params |-> params,
     headers |-> SentHeaders(InitHeaders("t1", "o1"), request_headers),
     timeout |-> RequestTimeout]

\* The request _request hands to session.request.
Request(method, endpoint, params, request_headers) ==
    [method |-> method, endpoint |-> endpoint, params |-> params,
     headers |-> SentHeaders(session_headers, request_headers),
     timeout |-> RequestTimeout]

\* The exceptions session.request can raise for a request that got no
\* response: a refused connection or a DNS failure at once, a timeout only
\* when the request carries one.
TransportFailures(req) ==
    {"requests.ConnectionError"}
        \cup (IF req.timeout # None THEN {"requests.Timeout"} ELSE {})

\* session.request returns or raises: a response or a failure has arrived,
\* or the request's timeout (if it has one) has elapsed.
TransportReady(w, req) ==
    w.kind \in {"response", "failure"} \/ (w.kind = "pending" /\ req.timeout # None)

\* VezorClient._request: what the caller of _request sees; NoOutcome when
\* _request returns the response.  An exception of session.request is not
\* caught and reaches the caller as it is.
RequestOutcome(w) ==
    IF w.kind = "failure" THEN Raised(w.exc, "", {}, NoneValue)
    ELSE IF w.kind = "pending" THEN Raised("requests.Timeout", "", {}, NoneValue)
    ELSE raise_for_status(w)

\* `.json()` on the response _request returned.
JsonOutcome(w) ==
    IF ResponseJson(w.text) = NotJson
    THEN Raised("requests.JSONDecodeError", "", {}, NoneValue)
    ELSE Returned(ResponseJson(w.text))

----------------------------------------------------------------------------
(* The calls of the request life cycle: operations that send one request  *)
(* and return its decoded body.                                           *)

SecretIds == {"s1", "s2"}

SimpleCalls ==
    {[op |-> "health", secret_id |-> ""],
     [op |-> "list_organizations", secret_id |-> ""]}
        \cup {[op |-> "get_secret", secret_id |-> i] : i \in SecretIds}
        \cup {[op |-> "delete_secret", secret_id |-> i] : i \in SecretIds}

\* A delete that only looks the secret up.
SimpleRequestDeleteAsGet(c) ==
    CASE c.op = "health" -> Request("GET", <<"api", "v1", "health">>, EmptyDict, EmptyDict)
      [] c.op = "list_organizations" -> Request("GET", <<"api", "v1", "organizations">>, EmptyDict, EmptyDict)
      [] OTHER -> Request("GET", <<"api", "v1", "secrets", c.secret_id>>, EmptyDict, EmptyDict)

\* The request each of these operations builds.
SimpleRequest(c) ==
    CASE c.op = "health" -> Request("GET", <<"api", "v1", "health">>, EmptyDict, EmptyDict)
      [] c.op = "list_organizations" -> Request("GET", <<"api", "v1", "organizations">>, EmptyDict, EmptyDict)
      [] c.op = "get_secret" -> Request("GET", <<"api", "v1", "secrets", c.secret_id>>, EmptyDict, EmptyDict)
      [] c.op = "delete_secret" -> Request("DELETE", <<"api", "v1", "secrets", c.secret_id>>, EmptyDict, EmptyDict)

NoCall == [op |-> "", secret_id |-> ""]

\* The state after VezorClient(base_url, token, organization_id).
Init ==
    /\ \E t \in Tokens \cup {None}, o \in OrgIds \cup {None} :
        /\ token = t
        /\ organization_id = o
        /\ session_headers = InitHeaders(t, o)
    /\ pc = "idle"
    /\ call = NoCall
    /\ sent = <<>>
    /\ wire = Idle
    /\ outcome = NoOutcome
    /\ result = <<>>
    /\ store = <<>>
    /\ issued = 0
    /\ groups = <<>>
    /\ journal = <<>>
    /\ console = <<>>
    /\ local = <<>>

set_token(t) ==
    /\ pc = "idle"
    /\ token' = t
    /\ session_headers' = SetTokenHeaders(session_headers, t)
    /\ UNCHANGED <<organization_id, pc, call, sent, wire, outcome, result, store, issued, groups, journal, console, local>>

set_organization(o) ==
    /\ pc = "idle"
    /\ organization_id' = o
    /\ session_headers' = SetOrganizationHeaders(session_headers, o)
    /\ UNCHANGED <<token, pc, call, sent, wire, outcome, result, store, issued, groups, journal, console, local>>

\* The caller starts an operation: its request goes to session.request.
StartCall(c) ==
    /\ pc = "idle"
    /\ call' = c
    /\ sent' = <<SimpleRequest(c)>>
    /\ wire' = Pending
    /\ pc' = "awaiting"
    /\ outcome' = NoOutcome
    /\ UNCHANGED <<clientVars, result, store, issued, groups, journal, console, local>>

\* The remote side answers the request in flight.
ServerResponds(r) ==
    /\ wire.kind = "pending"
    /\ wire' = Answer(r)
    /\ UNCHANGED <<clientVars, pc, call, sent, outcome, result, store, issued, groups, journal, console, local>>

\* The connection is refused, the name does not resolve, or a timeout the
\* request carries elapses.
NetworkFails(e) ==
    /\ wire.kind = "pending"
    /\ e \in TransportFailures(Last(sent))
    /\ wire' = Failure(e)
    /\ UNCHANGED <<clientVars, pc, call, sent, outcome, result, store, issued, groups, journal, console, local>>

\* session.request returns or raises, _request classifies, and the operation
\* returns `.json()` of the response.
FinishCall ==
    /\ pc = "awaiting"
    /\ TransportReady(wire, Last(sent))
    /\ outcome' = IF RequestOutcome(wire) # NoOutcome THEN RequestOutcome(wire)
                  ELSE JsonOutcome(wire)
    /\ pc' = "done"
    /\ UNCHANGED <<clientVars, call, sent, wire, result, store, issued, groups, journal, console, local>>

\* The call is over: its caller has the value or the exception and goes on.
Return ==
    /\ pc = "done"
    /\ pc' = "idle"
    /\ call' = NoCall
    /\ sent' = <<>>
    /\ wire' = Idle
    /\ outcome' = NoOutcome
    /\ result' = <<>>
    /\ UNCHANGED <<clientVars, store, issued, groups, journal, console, local>>

\* The steps the client takes on its own.
ClientStep ==
    \/ \E c \in SimpleCalls : StartCall(c)
    \/ FinishCall
    \/ Return

Next ==
    \/ \E t \in Tokens : set_token(t)
    \/ \E o \in OrgIds : set_organization(o)
    \/ \E c \in SimpleCalls : StartCall(c)
    \/ \E r \in Responses : ServerResponds(r)
    \/ \E e \in {"requests.ConnectionError", "requests.Timeout"} : NetworkFails(e)
    \/ FinishCall
    \/ Return

Spec == Init /\ [][Next]_vars

\* The client always takes its next step; the remote side and the network
\* owe nothing.
FairSpec == Spec /\ WF_vars(ClientStep)

----------------------------------------------------------------------------
(* src/vezor/client.py: list_secrets *)

\* An Optional[int] argument: {} for None, {n} for the integer n.
NoInt == {}
IntValue(x) == CHOOSE n \in x : TRUE

\* Python truthiness of an Optional[int]: None and 0 are falsy.
IntTruthy(x) == x # NoInt /\ IntValue(x) # 0

\* requests writes a query parameter's value as str(value).
QueryValue(n) == ToString(n)

\* list_secrets with the reserved parameters written before the tag filter.
ListParamsTagsLast(tags, search, limit, offset) ==
    LET p1 == IF Truthy(search) THEN DictUpdate(EmptyDict, "search" :> search) ELSE EmptyDict
        p2 == IF IntTruthy(limit) THEN DictUpdate(p1, "limit" :> QueryValue(IntValue(limit))) ELSE p1
        p3 == DictUpdate(p2, "offset" :> QueryValue(offset))
    IN  IF DOMAIN tags # {} THEN DictUpdate(p3, tags) ELSE p3

\* A listing that leaves the search out.
ListParamsWithoutSearch(tags, search, limit, offset) ==
    LET p1 == IF DOMAIN tags # {} THEN DictUpdate(EmptyDict, tags) ELSE EmptyDict
        p3 == IF IntTruthy(limit) THEN DictUpdate(p1, "limit" :> QueryValue(IntValue(limit))) ELSE p1
    IN  DictUpdate(p3, "offset" :> QueryValue(offset))

\* A listing that leaves the tag filter out.
ListParamsWithoutTags(tags, search, limit, offset) ==
    LET p1 == IF Truthy(search) THEN DictUpdate(EmptyDict, "search" :> search) ELSE EmptyDict
        p2 == IF IntTruthy(limit) THEN DictUpdate(p1, "limit" :> QueryValue(IntValue(limit))) ELSE p1
    IN  DictUpdate(p2, "offset" :> QueryValue(offset))

\* The params dict of list_secrets, as it goes on the wire.
ListParams(tags, search, limit, offset) ==
    LET p1 == IF DOMAIN tags # {} THEN DictUpdate(EmptyDict, tags) ELSE EmptyDict
        p2 == IF Truthy(search) THEN DictUpdate(p1, "search" :> search) ELSE p1
        p3 == IF IntTruthy(limit) THEN DictUpdate(p2, "limit" :> QueryValue(IntValue(limit))) ELSE p2
    IN  DictUpdate(p3, "offset" :> QueryValue(offset))

\* The arguments a caller of list_secrets may pass.  A tag filter is a dict
\* of str to str; None and {} are the same to list_secrets (`if tags:`).
TagKeys == {"env", "search", "limit", "offset"}
TagValues == {"prod", "7"}
TagFilters == UNION {[K -> TagValues] : K \in SUBSET TagKeys}
Searches == {None, "", "db"}
Limits == {NoInt, {0}, {100}}
Offsets == {0, 2}

ListCalls ==
    [op : {"list_secrets"}, tags : TagFilters, search : Searches, limit : Limits, offset : Offsets]

\* The answers the remote side gives a list request here.
ListResponses ==
    {[status |-> 200, text |-> "{\"detail\":\"x\"}"], [status |-> 500, text |-> "Bad Gateway"]}

\* The state after VezorClient(base_url, "t1", "o1").
InitList ==
    /\ token = "t1"
    /\ organization_id = "o1"
    /\ session_headers = InitHeaders("t1", "o1")
    /\ pc = "idle"
    /\ call = NoCall
    /\ sent = <<>>
    /\ wire = Idle
    /\ outcome = NoOutcome
    /\ result = <<>>
    /\ store = <<>>
    /\ issued = 0
    /\ groups = <<>>
    /\ journal = <<>>
    /\ console = <<>>
    /\ local = <<>>

\* list_secrets(tags, search, limit, offset) up to its call of _request.
list_secrets(c) ==
    /\ pc = "idle"
    /\ call' = c
    /\ sent' = <<Request("GET", <<"api", "v1", "secrets">>,
                         ListParams(c.tags, c.search, c.limit, c.offset), EmptyDict)>>
    /\ wire' = Pending
    /\ pc' = "awaiting"
    /\ outcome' = NoOutcome
    /\ UNCHANGED <<clientVars, result, store, issued, groups, journal, console, local>>

NextList ==
    \/ \E c \in ListCalls : list_secrets(c)
    \/ \E r \in ListResponses : ServerResponds(r)
    \/ \E e \in {"requests.ConnectionError"} : NetworkFails(e)
    \/ FinishCall
    \/ Return

SpecList == InitList /\ [][NextList]_vars

----------------------------------------------------------------------------
(* Key names.  str.lower() and substring containment, tabulated for the    *)
(* key names of the model.                                                 *)

KeyNames == {"DB", "db", "A_DB", "API"}

\* str.lower()
Lower(name) ==
    CASE name = "DB" -> "db"
      [] name = "A_DB" -> "a_db"
      [] name = "API" -> "api"
      [] OTHER -> name

\* The substrings of a lower-case key name.
Substrings(name) ==
    CASE name = "db" -> {"", "d", "b", "db"}
      [] name = "a_db" -> {"", "a", "_", "d", "b", "a_", "_d", "db", "a_d", "_db", "a_db"}
      [] name = "api" -> {"", "a", "p", "i", "ap", "pi", "api"}
      [] OTHER -> {"", name}

\* needle in hay
Contains(hay, needle) == needle \in Substrings(hay)

----------------------------------------------------------------------------
(* The remote server: the secrets it holds and its answers to              *)
(* GET /api/v1/secrets and GET /api/v1/secrets/{id}.                       *)

\* The page size get_secret_by_name asks for.
NameLookupLimit == 100

\* How many secrets of other names a store holds besides the leading ones.
MaxTail == 2

\* The i-th of the secrets A_DB that the applications svc1, svc2, ... hold.
Filler(i) ==
    [id |-> ToString(i), key_name |-> "A_DB",
     tags |-> [env |-> "prod", app |-> "svc" \o ToString(i)], value |-> "x"]

SecretKinds ==
    [key_name : KeyNames, tags : {[env |-> "prod", app |-> "api"], [env |-> "dev", app |-> "api"]}]

\* Sequences of pairwise different secret kinds, MaxTail at most.
Tails ==
    {t \in UNION {[1..n -> SecretKinds] : n \in 0..MaxTail} :
        \A i, j \in 1..Len(t) : i # j => t[i] # t[j]}

\* A store: n secrets A_DB first, then the secrets of tail; ids by position.
MakeStore(n, tail) ==
    [i \in 1..(n + Len(tail)) |->
        IF i <= n THEN Filler(i)
        ELSE [id |-> ToString(i), key_name |-> tail[i - n].key_name,
              tags |-> tail[i - n].tags, value |-> "v" \o ToString(i)]]

FillerCounts == {0, NameLookupLimit - 1, NameLookupLimit}

Stores == {MakeStore(n, t) : n \in FillerCounts, t \in Tails}

\* A tag filter selects the secrets that carry each of its pairs.
TagsMatch(tags, filter) ==
    \A k \in DOMAIN filter : k \in DOMAIN tags /\ tags[k] = filter[k]

\* The integer a query parameter's text stands for.
QueryInt(text) == CHOOSE n \in 0..NameLookupLimit : ToString(n) = text

\* A secret as a listing shows it: without its value.
Listed(secret) == [secret EXCEPT !.value = Absent]

\* The 'secrets' of the answer to GET /api/v1/secrets?params: the secrets
\* that pass the tag filter and contain `search` in their key name, case
\* ignored, in the server's order, `limit` of them from `offset` on.
ServerList(st, params) ==
    LET filter == [k \in DOMAIN params \ {"search", "limit", "offset"} |-> params[k]]
        search == IF "search" \in DOMAIN params THEN params["search"] ELSE ""
        offset == QueryInt(params["offset"])
        limit  == QueryInt(params["limit"])
        found  == SelectSeq(st, LAMBDA x :
                      TagsMatch(x.tags, filter) /\ Contains(Lower(x.key_name), Lower(search)))
        last   == IF offset + limit < Len(found) THEN offset + limit ELSE Len(found)
    IN  [i \in 1..(IF last > offset THEN last - offset ELSE 0) |-> Listed(found[offset + i])]

\* The answer to GET /api/v1/secrets/{id}.
ServerGet(st, id) ==
    LET found == SelectSeq(st, LAMBDA x : x.id = id) IN
    IF found # <<>>
    THEN [Answer([status |-> 200, text |-> "{secret}"]) EXCEPT !.data = <<found[1]>>]
    ELSE Answer([status |-> 404, text |-> "{\"error\":\"denied\"}"])

----------------------------------------------------------------------------
(* src/vezor/client.py: get_secret_by_name *)

\* A comparison that takes what the server's search returned for a match.
NameMatchesBySearch(secret, key_name) == Contains(Lower(secret.key_name), Lower(key_name))

\* secret['key_name'].lower() == key_name.lower()
NameMatches(secret, key_name) == Lower(secret.key_name) = Lower(key_name)

\* The first secret of the listing the loop returns on; 0 when the loop ends.
FirstMatch(secrets, key_name) ==
    LET hits == {i \in 1..Len(secrets) : NameMatches(secrets[i], key_name)} IN
    IF hits = {} THEN 0 ELSE CHOOSE i \in hits : \A j \in hits : i <= j

ResolveCalls ==
    [op : {"get_secret_by_name"}, key_name : {"DB", "api"},
     tags : {EmptyDict, [env |-> "prod"]}]

\* The error answers the remote side gives here: to a token that has
\* expired, and for a secret that is gone.
ErrorResponses ==
    {[status |-> 401, text |-> "{\"error\":\"denied\"}"], [status |-> 404, text |-> "Bad Gateway"]}

\* The state after VezorClient(base_url, "t1", "o1"), the server holding
\* one of Stores.
InitResolve ==
    /\ token = "t1"
    /\ organization_id = "o1"
    /\ session_headers = InitHeaders("t1", "o1")
    /\ pc = "idle"
    /\ call = NoCall
    /\ sent = <<>>
    /\ wire = Idle
    /\ outcome = NoOutcome
    /\ result = <<>>
    /\ store \in Stores
    /\ issued = Len(store)
    /\ groups = <<>>
    /\ journal = <<>>
    /\ console = <<>>
    /\ local = <<>>

\* get_secret_by_name(key_name, tags) up to the request of list_secrets.
get_secret_by_name(c) ==
    /\ pc = "idle"
    /\ call' = c
    /\ sent' = <<Request("GET", <<"api", "v1", "secrets">>,
                         ListParams(c.tags, c.key_name, {NameLookupLimit}, 0), EmptyDict)>>
    /\ wire' = Pending
    /\ pc' = "awaiting"
    /\ outcome' = NoOutcome
    /\ UNCHANGED <<clientVars, result, store, issued, groups, journal, console, local>>

\* The server answers the list request.
ServerLists ==
    /\ wire.kind = "pending"
    /\ Len(sent) = 1
    /\ wire' = [Answer([status |-> 200, text |-> "{secrets}"])
                   EXCEPT !.data = ServerList(store, sent[1].params)]
    /\ UNCHANGED <<clientVars, pc, call, sent, outcome, result, store, issued, groups, journal, console, local>>

\* The server answers the request for one secret.
ServerGets ==
    /\ wire.kind = "pending"
    /\ Len(sent) = 2
    /\ wire' = ServerGet(store, sent[2].endpoint[4])
    /\ UNCHANGED <<clientVars, pc, call, sent, outcome, result, store, issued, groups, journal, console, local>>

\* list_secrets returns or raises; the loop over result['secrets'] either
\* calls get_secret for the first match or ends, and None is returned.
ResolveListed ==
    /\ pc = "awaiting"
    /\ Len(sent) = 1
    /\ TransportReady(wire, sent[1])
    /\ IF RequestOutcome(wire) # NoOutcome
       THEN /\ outcome' = RequestOutcome(wire)
            /\ pc' = "done"
            /\ UNCHANGED <<sent, wire, result>>
       ELSE /\ result' = wire.data
            /\ IF FirstMatch(wire.data, call.key_name) = 0
               THEN /\ outcome' = Returned(NoneValue)
                    /\ pc' = "done"
                    /\ UNCHANGED <<sent, wire>>
               ELSE /\ sent' = Append(sent,
                            Request("GET",
                                    <<"api", "v1", "secrets",
                                      wire.data[FirstMatch(wire.data, call.key_name)].id>>,
                                    EmptyDict, EmptyDict))
                    /\ wire' = Pending
                    /\ UNCHANGED <<pc, outcome>>
    /\ UNCHANGED <<clientVars, call, store, issued, groups, journal, console, local>>

\* get_secret returns or raises, and so does get_secret_by_name.
ResolveFetched ==
    /\ pc = "awaiting"
    /\ Len(sent) = 2
    /\ TransportReady(wire, sent[2])
    /\ outcome' = IF RequestOutcome(wire) # NoOutcome THEN RequestOutcome(wire)
                  ELSE Returned(wire.data[1])
    /\ pc' = "done"
    /\ UNCHANGED <<clientVars, call, sent, wire, result, store, issued, groups, journal, console, local>>

NextResolve ==
    \/ \E c \in ResolveCalls : get_secret_by_name(c)
    \/ ServerLists
    \/ ServerGets
    \/ \E r \in ErrorResponses : ServerResponds(r)
    \/ \E e \in {"requests.ConnectionError"} : NetworkFails(e)
    \/ ResolveListed
    \/ ResolveFetched
    \/ Return

SpecResolve == InitResolve /\ [][NextResolve]_vars

----------------------------------------------------------------------------
(* The error taxonomy of src/vezor/exceptions.py *)

\* The classes derived from VezorError.
VezorErrors ==
    {"VezorError", "VezorAuthError", "VezorNotFoundError", "VezorValidationError",
     "VezorPermissionError", "VezorAPIError"}

\* The classes raise_for_status derives from a status.
StatusErrors ==
    {"VezorAuthError", "VezorNotFoundError", "VezorValidationError",
     "VezorPermissionError", "VezorAPIError"}

\* A call has ended on an HTTP response.
EndedOnResponse == pc = "done" /\ wire.kind = "response"

----------------------------------------------------------------------------
(* Claims about the error classifier and the transport *)

\* C4: a call that ended on a response raised no library error for a 2xx
\* status, VezorAuthError for 401, VezorPermissionError for 403,
\* VezorNotFoundError for 404 and VezorValidationError for 400, whatever the
\* body was (every body of Bodies reaches this state under every status).
C4_ClassifiedByStatusAlone ==
    EndedOnResponse =>
        /\ (wire.status \in 200..299 => outcome.error \notin VezorErrors)
        /\ (wire.status = 401 => outcome.kind = "raise" /\ outcome.error = "VezorAuthError")
        /\ (wire.status = 403 => outcome.kind = "raise" /\ outcome.error = "VezorPermissionError")
        /\ (wire.status = 404 => outcome.kind = "raise" /\ outcome.error = "VezorNotFoundError")
        /\ (wire.status = 400 => outcome.kind = "raise" /\ outcome.error = "VezorValidationError")

\* A 404 whose body is not JSON has been classified as VezorNotFoundError.
C4_Witness ==
    /\ EndedOnResponse
    /\ wire.status = 404
    /\ wire.text = "Bad Gateway"
    /\ outcome.error = "VezorNotFoundError"

\* C5 as stated: every response whose status is neither 2xx nor one of 400,
\* 401, 403, 404 ends the call with VezorAPIError carrying that status.
C5_EveryOtherNon2xxIsAPIError ==
    (EndedOnResponse /\ wire.status \notin 200..299 /\ wire.status \notin {400, 401, 403, 404}) =>
        /\ outcome.kind = "raise"
        /\ outcome.error = "VezorAPIError"
        /\ outcome.status_code = {wire.status}

\* C5 as amended: every response whose status is 4xx or 5xx and none of 400,
\* 401, 403, 404 ends the call with VezorAPIError carrying that status.
C5_Other4xx5xxIsAPIError ==
    (EndedOnResponse /\ wire.status \in 400..599 /\ wire.status \notin {400, 401, 403, 404}) =>
        /\ outcome.kind = "raise"
        /\ outcome.error = "VezorAPIError"
        /\ outcome.status_code = {wire.status}

\* A 429 has ended a call with VezorAPIError carrying 429.
C5_Witness ==
    /\ EndedOnResponse
    /\ wire.status = 429
    /\ outcome.error = "VezorAPIError"
    /\ outcome.status_code = {429}

\* The body decodes to an object with an 'error' or a 'message' field.
MatchesErrorSchema(text) ==
    /\ ResponseJson(text).kind = "object"
    /\ (ResponseJson(text).error # Absent \/ ResponseJson(text).message # Absent)

\* C6: a VezorAPIError carries the decoded body when the body matches the
\* error schema, and otherwise has the raw response text as its message and
\* None as its payload.  (An empty body, whose message the code makes
\* "HTTP <status>", is not held against the claim here.)
C6_PayloadExactlyWhenParseable ==
    (EndedOnResponse /\ outcome.error = "VezorAPIError") =>
        IF MatchesErrorSchema(wire.text)
        THEN outcome.response = ResponseJson(wire.text)
        ELSE /\ (wire.text # "" => outcome.message = wire.text)
             /\ outcome.response = NoneValue

\* C7: a call that ended without any HTTP response raised an error of the
\* library's taxonomy that is none of the status-derived kinds.
C7_NetworkFailureIsTaxonomyError ==
    (pc = "done" /\ wire.kind = "failure") =>
        /\ outcome.kind = "raise"
        /\ outcome.error \in VezorErrors
        /\ outcome.error \notin StatusErrors

\* C8: every call that waits for the transport eventually ends.
C8_EveryCallTerminates == (pc = "awaiting") ~> (pc = "done")

\* C9: every request sent carries the fixed User-Agent, an Authorization
\* header exactly when the token attribute is a configured (non-empty) token
\* and then that token's, and an X-Organization-Id header exactly when the
\* organization_id attribute is a configured id and then that id.
C9_HeadersAgreeWithAttributes ==
    \A i \in 1..Len(sent) :
        LET h == sent[i].headers IN
        /\ "User-Agent" \in DOMAIN h /\ h["User-Agent"] = USER_AGENT
        /\ ("Authorization" \in DOMAIN h) <=> Truthy(token)
        /\ ("Authorization" \in DOMAIN h) => h["Authorization"] = Bearer(token)
        /\ ("X-Organization-Id" \in DOMAIN h) <=> Truthy(organization_id)
        /\ ("X-Organization-Id" \in DOMAIN h) => h["X-Organization-Id"] = organization_id

----------------------------------------------------------------------------
(* Claims about list_secrets *)

\* The request a list_secrets call has sent.
ListSent == call.op = "list_secrets" /\ Len(sent) = 1

\* C10 as stated: every key/value pair of the tag filter is a query
\* parameter of the request, whatever the key; 'offset' is always sent, and
\* 'limit' is sent exactly when the caller supplied one.  (Where a tag key
\* is 'offset' or 'limit', only the tag's own pair is asked for.)
C10_TagsVerbatimAndReserved ==
    ListSent =>
        LET params == sent[1].params IN
        /\ \A k \in DOMAIN call.tags : k \in DOMAIN params /\ params[k] = call.tags[k]
        /\ "offset" \in DOMAIN params
        /\ "offset" \notin DOMAIN call.tags => params["offset"] = QueryValue(call.offset)
        /\ "limit" \notin DOMAIN call.tags =>
              /\ ("limit" \in DOMAIN params) <=> (call.limit # NoInt)
              /\ call.limit # NoInt => params["limit"] = QueryValue(IntValue(call.limit))

\* The reserved parameters list_secrets writes for these arguments.
ReservedSent(c) ==
    {"offset"} \cup (IF Truthy(c.search) THEN {"search"} ELSE {})
               \cup (IF c.limit # NoInt /\ IntValue(c.limit) # 0 THEN {"limit"} ELSE {})

\* C10 as amended: the query parameters are the tag filter's pairs and the
\* reserved parameters written; a tag whose key is that of a reserved
\* parameter written gives way to it; 'offset' is always written, 'search'
\* exactly for a non-empty search, 'limit' exactly for a limit other than
\* None and 0.
C10_TagsVerbatimUnlessReserved ==
    ListSent =>
        LET params == sent[1].params IN
        /\ DOMAIN params = DOMAIN call.tags \cup ReservedSent(call)
        /\ \A k \in DOMAIN call.tags \ ReservedSent(call) : params[k] = call.tags[k]
        /\ params["offset"] = QueryValue(call.offset)
        /\ "search" \in ReservedSent(call) => params["search"] = call.search
        /\ "limit" \in ReservedSent(call) => params["limit"] = QueryValue(IntValue(call.limit))

\* A list request whose tag filter has the keys env and offset: env is sent
\* as given, offset carries the reserved value.
C10_Witness ==
    /\ ListSent
    /\ DOMAIN call.tags = {"env", "offset"}
    /\ call.tags["offset"] = "7"
    /\ call.limit = {100}
    /\ sent[1].params = ("env" :> call.tags["env"] @@ "limit" :> "100" @@ "offset" :> "0")

----------------------------------------------------------------------------
(* Claims about get_secret_by_name *)

\* list_secrets has returned to get_secret_by_name: `result` holds the
\* secrets of the server's answer.
ListReturned ==
    /\ call.op = "get_secret_by_name"
    /\ \/ Len(sent) = 2
       \/ (pc = "done" /\ Len(sent) = 1 /\ wire.kind = "response" /\ wire.status = 200)

\* The secrets of the answer whose key name equals the one asked for, case
\* ignored.
Candidates == {i \in 1..Len(result) : Lower(result[i].key_name) = Lower(call.key_name)}

\* The stored secrets that pass the tag filter and whose key name equals the
\* one asked for, case ignored.
StoredMatches ==
    {i \in 1..Len(store) :
        /\ TagsMatch(store[i].tags, call.tags)
        /\ Lower(store[i].key_name) = Lower(call.key_name)}

\* C1: with two or more candidates in the server's answer the call sends no
\* request for any of them and ends with AmbiguousMatchError.
C1_AmbiguityIsAnError ==
    (ListReturned /\ Cardinality(Candidates) >= 2) =>
        /\ Len(sent) = 1
        /\ pc = "done"
        /\ outcome.kind = "raise"
        /\ outcome.error = "AmbiguousMatchError"

\* C2 (its second half, which the first implies): when exactly one stored
\* secret passes the filter and has the key name, a call that returns
\* returns that secret, however many stored secrets contain the name.
C2_TheOnlyMatchIsReturned ==
    (/\ call.op = "get_secret_by_name"
     /\ pc = "done"
     /\ outcome.kind = "return"
     /\ Cardinality(StoredMatches) = 1) =>
        \E i \in StoredMatches : outcome.value = store[i]

\* C3 as stated: with no candidate in the server's answer the call ends with
\* VezorNotFoundError and has sent no request for a secret.
C3_NoCandidateIsNotFoundError ==
    (ListReturned /\ Candidates = {}) =>
        /\ Len(sent) = 1
        /\ pc = "done"
        /\ outcome.kind = "raise"
        /\ outcome.error = "VezorNotFoundError"

\* C3 as amended: with no candidate in the server's answer the call returns
\* None, raising nothing, and has sent no request for a secret.
C3_NoCandidateReturnsNone ==
    (ListReturned /\ Candidates = {}) =>
        /\ Len(sent) = 1
        /\ pc = "done"
        /\ outcome = Returned(NoneValue)

\* The server listed secrets that contain the name, none has it, and the
\* call returned None after the one request.
C3_Witness ==
    /\ ListReturned
    /\ Len(result) > 0
    /\ Candidates = {}
    /\ Len(sent) = 1
    /\ outcome = Returned(NoneValue)

----------------------------------------------------------------------------
(* src/vezor/client.py: create_secret, update_secret, get_secret with a    *)
(* version, delete_secret and get_secret_versions, up to _request.         *)

\* Optional[Dict]: {} for None and {d} for the dict d.
NoDict == {}
DictValue(x) == CHOOSE d \in x : TRUE

\* _request(method, endpoint, json=data)
JsonRequest(method, endpoint, data) ==
    [method |-> method, endpoint |-> endpoint, params |-> EmptyDict,
     headers |-> SentHeaders(session_headers, EmptyDict), timeout |-> RequestTimeout,
     json |-> data]

\* The dict create_secret builds; `if metadata:` takes None and {} for false.
CreateBody(key_name, value, tags, description, value_type, metadata) ==
    LET d0 == ("key_name" :> key_name) @@ ("value" :> value) @@ ("tags" :> tags)
                  @@ ("path" :> Lower(key_name))
        d1 == IF Truthy(description) THEN DictUpdate(d0, "description" :> description) ELSE d0
        d2 == IF Truthy(value_type) THEN DictUpdate(d1, "value_type" :> value_type) ELSE d1
    IN  IF metadata # NoDict /\ DOMAIN DictValue(metadata) # {}
        THEN DictUpdate(d2, "metadata" :> DictValue(metadata)) ELSE d2

\* An update that sends 'value' whether or not the caller gave one.
UpdateBodyAlwaysValue(value, description, tags) ==
    LET d1 == DictUpdate(EmptyDict, "value" :> value)
        d2 == IF description # None THEN DictUpdate(d1, "description" :> description) ELSE d1
    IN  IF tags # NoDict THEN DictUpdate(d2, "tags" :> DictValue(tags)) ELSE d2

\* The dict update_secret builds: a field is set when the argument is not None.
UpdateBody(value, description, tags) ==
    LET d1 == IF value # None THEN DictUpdate(EmptyDict, "value" :> value) ELSE EmptyDict
        d2 == IF description # None THEN DictUpdate(d1, "description" :> description) ELSE d1
    IN  IF tags # NoDict THEN DictUpdate(d2, "tags" :> DictValue(tags)) ELSE d2

\* A get that never asks for a version.
GetParamsNoVersion(version) == EmptyDict

\* get_secret's params: 'version' when the argument is not None.
GetParams(version) ==
    IF version # NoInt THEN DictUpdate(EmptyDict, "version" :> QueryValue(IntValue(version)))
    ELSE EmptyDict

\* create_secret(key_name, value, tags, description, value_type, metadata)
create_secret(c) ==
    /\ pc = "idle"
    /\ call' = c
    /\ sent' = <<JsonRequest("POST", <<"api", "v1", "secrets">>,
                             CreateBody(c.key_name, c.value, c.tags, c.description,
                                        c.value_type, c.metadata))>>
    /\ wire' = Pending
    /\ pc' = "awaiting"
    /\ outcome' = NoOutcome
    /\ UNCHANGED <<clientVars, result, store, issued, groups, journal, console, local>>

\* update_secret(secret_id, value, description, tags)
update_secret(c) ==
    /\ pc = "idle"
    /\ call' = c
    /\ sent' = <<JsonRequest("PUT", <<"api", "v1", "secrets", c.secret_id>>,
                             UpdateBody(c.value, c.description, c.tags))>>
    /\ wire' = Pending
    /\ pc' = "awaiting"
    /\ outcome' = NoOutcome
    /\ UNCHANGED <<clientVars, result, store, issued, groups, journal, console, local>>

\* get_secret(secret_id, version)
get_secret(c) ==
    /\ pc = "idle"
    /\ call' = c
    /\ sent' = <<Request("GET", <<"api", "v1", "secrets", c.secret_id>>,
                         GetParams(c.version), EmptyDict)>>
    /\ wire' = Pending
    /\ pc' = "awaiting"
    /\ outcome' = NoOutcome
    /\ UNCHANGED <<clientVars, result, store, issued, groups, journal, console, local>>

----------------------------------------------------------------------------
(* The remote server's handling of one secret, as the docstrings of        *)
(* client.py state it: a secret is created at version 1; an update that    *)
(* carries 'value' creates a new version and the previous versions stay    *)
(* retrievable with get_secret(id, version=N); a delete removes the secret *)
(* and all its versions.                                                   *)

\* The highest version a secret of the model reaches.
MaxVersion == 3

\* Where the store holds the secret `id`; 0 when it holds none.
Position(st, id) ==
    LET hits == {i \in 1..Len(st) : st[i].id = id} IN
    IF hits = {} THEN 0 ELSE CHOOSE i \in hits : TRUE

\* The secret a create request makes: the fields of its body at version 1.
Stored(id, body) ==
    [id |-> id, key_name |-> body["key_name"], tags |-> body["tags"],
     value |-> body["value"],
     description |-> IF "description" \in DOMAIN body THEN body["description"] ELSE "",
     version |-> 1, history |-> <<body["value"]>>]

\* The secret as an answer shows it at version n.
Shown(secret, n) ==
    [id |-> secret.id, key_name |-> secret.key_name, tags |-> secret.tags,
     value |-> secret.history[n], description |-> secret.description, version |-> n]

\* The secret after an update request: the fields the body carries replace
\* the stored ones, and 'value' makes the next version.
Updated(secret, body) ==
    LET s1 == IF "value" \in DOMAIN body
              THEN [secret EXCEPT !.value = body["value"], !.version = @ + 1,
                                  !.history = Append(@, body["value"])]
              ELSE secret
        s2 == IF "description" \in DOMAIN body
              THEN [s1 EXCEPT !.description = body["description"]] ELSE s1
    IN  IF "tags" \in DOMAIN body THEN [s2 EXCEPT !.tags = body["tags"]] ELSE s2

NotFound == Answer([status |-> 404, text |-> "{\"error\":\"denied\"}"])

Ok(data) == [Answer([status |-> 200, text |-> "{secret}"]) EXCEPT !.data = data]

\* POST /api/v1/secrets; the n-th secret made gets the id "s<n>".
ServerCreates ==
    /\ wire.kind = "pending"
    /\ Last(sent).method = "POST"
    /\ LET new == Stored("s" \o ToString(issued + 1), Last(sent).json) IN
        /\ store' = Append(store, new)
        /\ wire' = Ok(<<Shown(new, 1)>>)
    /\ issued' = issued + 1
    /\ UNCHANGED <<clientVars, pc, call, sent, outcome, result, groups, journal, console, local>>

\* PUT /api/v1/secrets/{id}
ServerUpdates ==
    /\ wire.kind = "pending"
    /\ Last(sent).method = "PUT"
    /\ LET i == Position(store, Last(sent).endpoint[4]) IN
       IF i = 0
       THEN wire' = NotFound /\ store' = store
       ELSE LET new == Updated(store[i], Last(sent).json) IN
            /\ store' = [store EXCEPT ![i] = new]
            /\ wire' = Ok(<<Shown(new, new.version)>>)
    /\ UNCHANGED <<clientVars, pc, call, sent, outcome, result, issued, groups, journal, console, local>>

\* DELETE /api/v1/secrets/{id}
ServerDeletes ==
    /\ wire.kind = "pending"
    /\ Last(sent).method = "DELETE"
    /\ LET id == Last(sent).endpoint[4] IN
       IF Position(store, id) = 0
       THEN wire' = NotFound /\ store' = store
       ELSE /\ store' = SelectSeq(store, LAMBDA x : x.id # id)
            /\ wire' = Ok(<<[deleted |-> id]>>)
    /\ UNCHANGED <<clientVars, pc, call, sent, outcome, result, issued, groups, journal, console, local>>

\* GET /api/v1/secrets/{id}, with or without ?version=n
ServerShows ==
    /\ wire.kind = "pending"
    /\ Last(sent).method = "GET"
    /\ Len(Last(sent).endpoint) = 4
    /\ LET i == Position(store, Last(sent).endpoint[4])
           params == Last(sent).params
       IN  wire' = IF i = 0 THEN NotFound
                   ELSE IF "version" \notin DOMAIN params
                        THEN Ok(<<Shown(store[i], store[i].version)>>)
                   ELSE IF QueryInt(params["version"]) \in 1..store[i].version
                        THEN Ok(<<Shown(store[i], QueryInt(params["version"]))>>)
                   ELSE NotFound
    /\ UNCHANGED <<clientVars, pc, call, sent, outcome, result, store, issued, groups, journal, console, local>>

\* GET /api/v1/secrets; without 'limit' the page holds every secret found.
ServerPages ==
    /\ wire.kind = "pending"
    /\ Last(sent).method = "GET"
    /\ Len(Last(sent).endpoint) = 3
    /\ LET params == Last(sent).params
           page == ServerList(store, IF "limit" \in DOMAIN params THEN params
                                    ELSE ("limit" :> ToString(Len(store))) @@ params)
       IN
       wire' = Ok([i \in 1..Len(page) |-> Listed(Shown(page[i], page[i].version))])
    /\ UNCHANGED <<clientVars, pc, call, sent, outcome, result, store, issued, groups, journal, console, local>>

----------------------------------------------------------------------------
(* One caller working on the server's secrets.                             *)

\* The caller's notes: per secret id, the values it has written and the
\* versions the answers gave them, and whether it has deleted the secret.
Noted(j, c, o) ==
    IF o.kind # "return" THEN j
    ELSE IF c.op = "create_secret"
         THEN (o.value.id :> [values |-> <<c.value>>, versions |-> <<o.value.version>>,
                              deleted |-> FALSE]) @@ j
    ELSE IF c.op = "update_secret" /\ c.value # None /\ c.secret_id \in DOMAIN j
         THEN [j EXCEPT ![c.secret_id].values = Append(@, c.value),
                        ![c.secret_id].versions = Append(@, o.value.version)]
    ELSE IF c.op = "delete_secret" /\ c.secret_id \in DOMAIN j
         THEN [j EXCEPT ![c.secret_id] = [values |-> <<>>, versions |-> <<>>, deleted |-> TRUE]]
    ELSE j

\* _request returns or raises, and the call returns response.json().
FinishSecretCall ==
    /\ pc = "awaiting"
    /\ call.op \in {"create_secret", "update_secret", "get_secret", "delete_secret",
                   "list_secrets"}
    /\ TransportReady(wire, Last(sent))
    /\ LET o == IF RequestOutcome(wire) # NoOutcome THEN RequestOutcome(wire)
                ELSE IF call.op = "list_secrets" THEN Returned([secrets |-> wire.data])
                ELSE Returned(wire.data[1])
       IN  outcome' = o /\ journal' = Noted(journal, call, o)
    /\ pc' = "done"
    /\ UNCHANGED <<clientVars, call, sent, wire, result, store, issued, groups, console, local>>

UpdateCalls ==
    [op : {"update_secret"}, secret_id : SecretIds, value : {None, "a", "b"},
     description : {None, "", "d"}, tags : {NoDict, {EmptyDict}, {[env |-> "dev"]}}]

GetCalls ==
    [op : {"get_secret"}, secret_id : SecretIds,
     version : {NoInt} \cup {{n} : n \in 1..MaxVersion}]

\* An update that would take the secret past MaxVersion is left out.
WithinMaxVersion(c) ==
    c.value # None =>
        \A i \in 1..Len(store) : store[i].id = c.secret_id => store[i].version < MaxVersion

NextVault ==
    \/ \E v \in {"a", "b"} :
          /\ issued < Cardinality(SecretIds)
          /\ create_secret([op |-> "create_secret", key_name |-> "DB", value |-> v,
                            tags |-> [env |-> "prod"], description |-> "",
                            value_type |-> "string", metadata |-> NoDict])
    \/ \E c \in UpdateCalls :
          /\ c.description # "" /\ c.tags = NoDict
          /\ WithinMaxVersion(c) /\ update_secret(c)
    \/ \E c \in GetCalls : get_secret(c)
    \/ \E i \in SecretIds : StartCall([op |-> "delete_secret", secret_id |-> i])
    \/ list_secrets([op |-> "list_secrets", tags |-> EmptyDict, search |-> None,
                     limit |-> {NameLookupLimit}, offset |-> 0])
    \/ get_secret_by_name([op |-> "get_secret_by_name", key_name |-> "db", tags |-> EmptyDict])
    \/ ServerCreates
    \/ ServerUpdates
    \/ ServerDeletes
    \/ ServerShows
    \/ ServerPages
    \/ \E e \in {"requests.ConnectionError"} : NetworkFails(e)
    \/ FinishSecretCall
    \/ (call.op = "get_secret_by_name" /\ ResolveListed)
    \/ (call.op = "get_secret_by_name" /\ ResolveFetched)
    \/ Return

\* From VezorClient(base_url, "t1", "o1"), the server holding no secret.
SpecVault == InitList /\ [][NextVault]_vars

\* create_secret alone, with every kind of argument; the server's answers
\* are taken as they come.
NextCreate ==
    \/ \E c \in [op : {"create_secret"}, key_name : {"DB", "db"}, value : {"a"},
                  tags : {EmptyDict, [env |-> "prod"]}, description : {"", "d"},
                  value_type : {"", "string"},
                  metadata : {NoDict, {EmptyDict}, {[owner |-> "ops"]}}] : create_secret(c)
    \/ \E r \in ListResponses : ServerResponds(r)
    \/ \E e \in {"requests.ConnectionError"} : NetworkFails(e)
    \/ FinishCall
    \/ Return

SpecCreate == InitList /\ [][NextCreate]_vars

\* The state after VezorClient(base_url, "t1", "o1") and
\* create_secret("DB", "a", {"env": "prod"}), which the server answered with s1.
InitUpdate ==
    /\ token = "t1"
    /\ organization_id = "o1"
    /\ session_headers = InitHeaders("t1", "o1")
    /\ pc = "idle"
    /\ call = NoCall
    /\ sent = <<>>
    /\ wire = Idle
    /\ outcome = NoOutcome
    /\ result = <<>>
    /\ store = <<Stored("s1", CreateBody("DB", "a", [env |-> "prod"], "", "string", NoDict))>>
    /\ issued = 1
    /\ groups = <<>>
    /\ journal = ("s1" :> [values |-> <<"a">>, versions |-> <<1>>, deleted |-> FALSE])
    /\ console = <<>>
    /\ local = <<>>

NextUpdate ==
    \/ \E c \in UpdateCalls : WithinMaxVersion(c) /\ update_secret(c)
    \/ \E c \in GetCalls : get_secret(c)
    \/ ServerUpdates
    \/ ServerShows
    \/ \E e \in {"requests.ConnectionError"} : NetworkFails(e)
    \/ FinishSecretCall
    \/ Return

SpecUpdate == InitUpdate /\ [][NextUpdate]_vars

----------------------------------------------------------------------------
(* src/vezor/client.py: get_group, get_group_secret_count and              *)
(* pull_group_secrets; the remote server's groups.                         *)

\* urllib.parse.quote(name, safe=""), for the group names of the model.
Quote(name) ==
    CASE name = "prod api" -> "prod%20api"
      [] name = "a/b" -> "a%2Fb"
      [] OTHER -> name

\* A pull that decodes every answer as JSON.
PullResultAlwaysJson(format, w) ==
    IF w.data = <<>> THEN Raised("requests.JSONDecodeError", "", {}, NoneValue)
    ELSE Returned(w.data[1])

\* What pull_group_secrets returns from a response: response.text for the
\* formats env and export, response.json() otherwise.
PullResult(format, w) ==
    IF format \in {"env", "export"} THEN Returned(w.text) ELSE Returned(w.data[1])

\* get_group(name)
get_group(c) ==
    /\ pc = "idle"
    /\ call' = c
    /\ sent' = <<Request("GET", <<"api", "v1", "groups", Quote(c.name)>>, EmptyDict, EmptyDict)>>
    /\ wire' = Pending
    /\ pc' = "awaiting"
    /\ outcome' = NoOutcome
    /\ UNCHANGED <<clientVars, result, store, issued, groups, journal, console, local>>

\* get_group_secret_count(name)
get_group_secret_count(c) ==
    /\ pc = "idle"
    /\ call' = c
    /\ sent' = <<Request("GET", <<"api", "v1", "groups", Quote(c.name), "count">>,
                         EmptyDict, EmptyDict)>>
    /\ wire' = Pending
    /\ pc' = "awaiting"
    /\ outcome' = NoOutcome
    /\ UNCHANGED <<clientVars, result, store, issued, groups, journal, console, local>>

\* pull_group_secrets(name, format).  The caller begins its notes anew: the
\* group asked for, the values the calls return, and whether the server's
\* secrets or groups have changed since.
pull_group_secrets(c) ==
    /\ pc = "idle"
    /\ call' = c
    /\ sent' = <<Request("GET", <<"api", "v1", "groups", Quote(c.name), "secrets">>,
                         "format" :> c.format, EmptyDict)>>
    /\ wire' = Pending
    /\ pc' = "awaiting"
    /\ outcome' = NoOutcome
    /\ journal' = [group |-> c.name, seen |-> <<>>, moved |-> FALSE]
    /\ UNCHANGED <<clientVars, result, store, issued, groups, console, local>>

\* The secrets that carry every tag of a group's filter.
Matching(st, filter) == SelectSeq(st, LAMBDA x : TagsMatch(x.tags, filter))

\* The .env text of secrets, a text being the sequence of its lines: a line
\* KEY=value for each secret, after `prefix`.
Render(secrets, prefix) ==
    [i \in 1..Len(secrets) |-> prefix \o secrets[i].key_name \o "=" \o secrets[i].value]

\* GET /api/v1/groups/{name}, .../count and .../secrets?format=f
ServerGroups ==
    /\ wire.kind = "pending"
    /\ Len(Last(sent).endpoint) >= 4
    /\ Last(sent).endpoint[3] = "groups"
    /\ LET req   == Last(sent)
           found == {n \in DOMAIN groups : Quote(n) = req.endpoint[4]}
           name  == CHOOSE n \in found : TRUE
           m     == Matching(store, groups[name])
       IN  wire' =
             IF found = {} THEN NotFound
             ELSE IF Len(req.endpoint) = 4 THEN Ok(<<[name |-> name, tags |-> groups[name]]>>)
             ELSE IF req.endpoint[5] = "count" THEN Ok(<<[count |-> Len(m)]>>)
             ELSE IF req.params["format"] = "json"
                  THEN Ok(<<[group |-> name, tags |-> groups[name], count |-> Len(m),
                             secrets |-> [i \in 1..Len(m) |->
                                             [key_name |-> m[i].key_name, value |-> m[i].value]]]>>)
             ELSE Answer([status |-> 200,
                          text |-> Render(m, IF req.params["format"] = "export"
                                             THEN "export " ELSE "")])
    /\ UNCHANGED <<clientVars, pc, call, sent, outcome, result, store, issued, groups, journal, console, local>>

\* Another client of the organization adds a secret, removes one, or gives a
\* group another tag filter.
ServerChanges ==
    /\ \/ /\ issued < Cardinality(SecretIds)
          /\ \E e \in {"prod", "dev"} :
                store' = Append(store,
                    Stored("s" \o ToString(issued + 1),
                           CreateBody("API", "b", [env |-> e, app |-> "api"], "", "string", NoDict)))
          /\ issued' = issued + 1
          /\ groups' = groups
       \/ /\ \E i \in 1..Len(store) : store' = SelectSeq(store, LAMBDA x : x.id # store[i].id)
          /\ UNCHANGED <<issued, groups>>
       \/ /\ \E n \in DOMAIN groups, e \in {"prod", "dev"} :
                /\ groups[n] # [env |-> e]
                /\ groups' = [groups EXCEPT ![n] = [env |-> e]]
          /\ UNCHANGED <<store, issued>>
    /\ journal' = [journal EXCEPT !.moved = TRUE]
    /\ UNCHANGED <<clientVars, pc, call, sent, wire, outcome, result, console, local>>

\* _request returns or raises, and the call returns what it decodes; the
\* caller notes a value returned by a read, and drops its notes on an error.
FinishNotedCall ==
    /\ pc = "awaiting"
    /\ TransportReady(wire, Last(sent))
    /\ LET o == IF RequestOutcome(wire) # NoOutcome THEN RequestOutcome(wire)
                ELSE IF call.op = "pull_group_secrets" THEN PullResult(call.format, wire)
                ELSE IF call.op = "export_env" THEN Returned(wire.text)
                ELSE IF call.op = "list_secrets" THEN Returned([secrets |-> wire.data])
                ELSE Returned(wire.data[1])
       IN  /\ outcome' = o
           /\ journal' = IF o.kind = "return" /\ call.op = "import_env" THEN journal
                         ELSE IF o.kind = "return"
                                 /\ ~(call.op = "pull_group_secrets" /\ call.format # "json")
                         THEN [journal EXCEPT !.seen = Append(@, o.value)]
                         ELSE [journal EXCEPT !.seen = <<>>]
    /\ pc' = "done"
    /\ UNCHANGED <<clientVars, call, sent, wire, result, store, issued, groups, console, local>>

\* The state after VezorClient(base_url, "t1", "o1"); the server holds one
\* secret and two groups.
InitGroups ==
    /\ token = "t1"
    /\ organization_id = "o1"
    /\ session_headers = InitHeaders("t1", "o1")
    /\ pc = "idle"
    /\ call = NoCall
    /\ sent = <<>>
    /\ wire = Idle
    /\ outcome = NoOutcome
    /\ result = <<>>
    /\ store = <<Stored("s1", CreateBody("DB", "a", [env |-> "prod", app |-> "api"], "",
                                         "string", NoDict))>>
    /\ issued = 1
    /\ groups = ("prod api" :> [env |-> "prod"]) @@ ("a/b" :> [app |-> "api"])
    /\ journal = [group |-> "", seen |-> <<>>, moved |-> FALSE]
    /\ console = <<>>
    /\ local = <<>>

\* The caller pulls a group in any format; after a pull as JSON it asks for
\* the count, then for the group, then lists the secrets of the group's tags.
NextGroups ==
    \/ \E n \in {"prod api", "a/b", "none"}, f \in {"json", "env", "export"} :
          pull_group_secrets([op |-> "pull_group_secrets", name |-> n, format |-> f])
    \/ /\ Len(journal.seen) = 1
       /\ get_group_secret_count([op |-> "get_group_secret_count", name |-> journal.group])
    \/ /\ Len(journal.seen) = 2
       /\ get_group([op |-> "get_group", name |-> journal.group])
    \/ /\ Len(journal.seen) = 3
       /\ list_secrets([op |-> "list_secrets", tags |-> journal.seen[3].tags,
                        search |-> None, limit |-> NoInt, offset |-> 0])
    \/ ServerGroups
    \/ ServerPages
    \/ ServerChanges
    \/ \E e \in {"requests.ConnectionError"} : NetworkFails(e)
    \/ FinishNotedCall
    \/ Return

SpecGroups == InitGroups /\ [][NextGroups]_vars

----------------------------------------------------------------------------
(* src/vezor/client.py: export_env and import_env; the remote server's     *)
(* export and import of .env text.                                         *)

\* An export that asks for every secret, whatever tags the caller gave.
ExportParamsWithoutTags(tags) == EmptyDict

\* params = tags if tags else {}
ExportParams(tags) == IF DOMAIN tags # {} THEN tags ELSE EmptyDict

\* export_env(tags).  The caller begins its notes anew, with the environment
\* the tags name.
export_env(c) ==
    /\ pc = "idle"
    /\ call' = c
    /\ sent' = <<Request("GET", <<"api", "v1", "export">>, ExportParams(c.tags), EmptyDict)>>
    /\ wire' = Pending
    /\ pc' = "awaiting"
    /\ outcome' = NoOutcome
    /\ journal' = [group |-> IF "env" \in DOMAIN c.tags THEN c.tags["env"] ELSE "",
                   seen |-> <<>>, moved |-> FALSE]
    /\ UNCHANGED <<clientVars, result, store, issued, groups, console, local>>

\* import_env(environment, env_content).  The caller keeps its notes only
\* when it imports the text its last export returned into the environment
\* that export asked for.
import_env(c) ==
    /\ pc = "idle"
    /\ call' = c
    /\ sent' = <<[method |-> "POST", endpoint |-> <<"api", "v1", "import", c.environment>>,
                  params |-> EmptyDict,
                  headers |-> SentHeaders(session_headers, "Content-Type" :> "text/plain"),
                  timeout |-> RequestTimeout, data |-> c.env_content]>>
    /\ wire' = Pending
    /\ pc' = "awaiting"
    /\ outcome' = NoOutcome
    /\ journal' = IF journal.seen = <<c.env_content>> /\ journal.group = c.environment
                  THEN journal ELSE [journal EXCEPT !.seen = <<>>]
    /\ UNCHANGED <<clientVars, result, store, issued, groups, console, local>>

\* The key/value pairs the server reads from a text, line by line; none
\* when a line of the text is not KEY=value.
Parse(text) ==
    LET Pair    == [key_name : {"DB", "API"}, value : {"a", "b", "x"}]
        Read(l) == {p \in Pair : p.key_name \o "=" \o p.value = l}
    IN  IF \A i \in 1..Len(text) : Read(text[i]) # {}
        THEN {[i \in 1..Len(text) |-> CHOOSE p \in Read(text[i]) : TRUE]}
        ELSE {}

\* The store after the import of lines into an environment: each line gives
\* the environment's secret of that name its value, a new version when the
\* value differs, or makes the secret.
RECURSIVE Imported(_, _, _)
Imported(st, lines, env) ==
    IF lines = <<>> THEN st
    ELSE LET l    == Head(lines)
             hits == {i \in 1..Len(st) : st[i].key_name = l.key_name /\ st[i].tags["env"] = env}
             i    == CHOOSE h \in hits : \A j \in hits : h <= j
         IN  Imported(IF hits = {}
                      THEN Append(st, Stored("s" \o ToString(Len(st) + 1),
                                             CreateBody(l.key_name, l.value, [env |-> env],
                                                        "", "string", NoDict)))
                      ELSE IF st[i].value = l.value THEN st
                      ELSE [st EXCEPT ![i] = Updated(st[i], "value" :> l.value)],
                      Tail(lines), env)

\* GET /api/v1/export?tags and POST /api/v1/import/{environment}
ServerBulk ==
    /\ wire.kind = "pending"
    /\ Last(sent).endpoint[3] \in {"export", "import"}
    /\ LET req == Last(sent) IN
       IF req.endpoint[3] = "export"
       THEN /\ wire' = Answer([status |-> 200,
                               text |-> Render(Matching(store, req.params), "")])
            /\ store' = store
       ELSE IF Parse(req.data) = {}
            THEN /\ wire' = Ok(<<[imported |-> 0, errors |-> <<"line 1">>]>>)
                 /\ store' = store
            ELSE LET lines == CHOOSE l \in Parse(req.data) : TRUE IN
                 /\ wire' = Ok(<<[imported |-> Len(lines), errors |-> <<>>]>>)
                 /\ store' = Imported(store, lines, req.endpoint[4])
    /\ issued' = Len(store')
    /\ UNCHANGED <<clientVars, pc, call, sent, outcome, result, groups, journal, console, local>>

\* The caller exports under any tags and imports a text into an environment:
\* the text the last export returned, or a text of its own.
NextBulk ==
    \/ \E t \in {EmptyDict, [env |-> "prod"], [env |-> "dev"]} :
          export_env([op |-> "export_env", tags |-> t])
    \/ \E e \in {"prod", "dev"}, t \in {<<"API=b">>, <<"DB=x">>} \cup
                  (IF Len(journal.seen) = 1 THEN {journal.seen[1]} ELSE {}) :
          /\ \A i \in 1..Len(store) : store[i].version < MaxVersion
          /\ import_env([op |-> "import_env", environment |-> e, env_content |-> t])
    \/ ServerBulk
    \/ \E e \in {"requests.ConnectionError"} : NetworkFails(e)
    \/ FinishNotedCall
    \/ Return

SpecBulk == InitGroups /\ [][NextBulk]_vars

----------------------------------------------------------------------------
(* src/vezor_cli.py: the commands get, set, delete and versions.  A        *)
(* command looks the secret up by name with list_secrets, then makes one   *)
(* request for the secret it took; console holds the lines it prints,      *)
(* without their colour markup.                                            *)

\* The most secrets the server makes in a run of the model.
MaxIssued == 3

\* '404' in str(e), over the messages the errors of the model carry.
Has404(msg) == msg \in {"HTTP 404"}

\* ", ".join(f"{k}={v}" for k, v in tags.items()), the keys in the order
\* `set` writes them: the additional tags, then env, then app.
TagsStr(tags) ==
    LET keys == SelectSeq(<<"region", "env", "app">>, LAMBDA k : k \in DOMAIN tags)
        RECURSIVE Join(_)
        Join(i) == IF i > Len(keys) THEN ""
                   ELSE (IF i > 1 THEN ", " ELSE "") \o keys[i] \o "=" \o tags[keys[i]]
                            \o Join(i + 1)
    IN  Join(1)

\* json.dumps(secret), written on one line.
Dumps(secret) ==
    "{\"id\": \"" \o secret.id \o "\", \"key_name\": \"" \o secret.key_name
        \o "\", \"tags\": {" \o TagsStr(secret.tags) \o "}, \"value\": \"" \o secret.value
        \o "\", \"description\": \"" \o secret.description
        \o "\", \"version\": " \o ToString(secret.version) \o "}"

\* The line of a command's last `except Exception as e`.
FailedLine(op, msg) ==
    "Failed to " \o (IF op = "versions" THEN "get versions" ELSE op \o " secret") \o ": " \o msg

\* raise click.Abort()
Abort == Raised("click.Abort", "", {}, NoneValue)

\* The tag filter a command gives list_secrets.
LookupTags(c) ==
    IF c.op = "set" THEN [env |-> c.env, app |-> c.app]
    ELSE IF c.op = "get"
         THEN (IF Truthy(c.env) THEN "env" :> c.env ELSE EmptyDict)
                  @@ (IF Truthy(c.app) THEN "app" :> c.app ELSE EmptyDict)
    ELSE IF Truthy(c.env) THEN "env" :> c.env ELSE EmptyDict

\* [s for s in secrets if s['key_name'].lower() == key_name.lower()]
Matches(secrets, key_name) == SelectSeq(secrets, LAMBDA s : NameMatches(s, key_name))

\* The command up to its call of list_secrets(tags, search=key_name).
Command(c) ==
    /\ pc = "idle"
    /\ call' = c
    /\ sent' = <<Request("GET", <<"api", "v1", "secrets">>,
                         ListParams(LookupTags(c), c.key_name, NoInt, 0), EmptyDict)>>
    /\ wire' = Pending
    /\ pc' = "awaiting"
    /\ outcome' = NoOutcome
    /\ console' = <<>>
    /\ UNCHANGED <<clientVars, result, store, issued, groups, journal, local>>

\* What a command does with the listing: the lines it prints, the request
\* it goes on with, if any, and how it ends if it ends here.  `yes` is the
\* user's answer to click.confirm.
AfterLookup(c, secrets, yes) ==
    LET matches == Matches(secrets, c.key_name)
        first == FirstMatch(secrets, c.key_name)
        tags == ("env" :> c.env) @@ ("app" :> c.app) @@ c.tag
        ends(lines, o) == [print |-> lines, request |-> <<>>, outcome |-> o]
        asks(lines, req) == [print |-> lines, request |-> <<req>>, outcome |-> NoOutcome]
        missing == "Secret '" \o c.key_name \o "' not found"
        candidate(m) ==
            "  - env=" \o (IF "env" \in DOMAIN m.tags THEN m.tags["env"] ELSE "?")
                \o ", app=" \o (IF "app" \in DOMAIN m.tags THEN m.tags["app"] ELSE "?")
    IN  CASE c.op = "get" ->
               IF Len(matches) = 0
               THEN ends(<<IF c.output = "json" THEN "{\"error\": \"Secret not found\"}"
                           ELSE missing>>, Abort)
               ELSE IF Len(matches) > 1
               THEN ends(IF c.output = "json"
                         THEN <<"{\"error\": \"Multiple secrets found, specify --env or --app\"}">>
                         ELSE <<"Multiple secrets named '" \o c.key_name \o "' found:">>
                                  \o [i \in 1..Len(matches) |-> candidate(matches[i])]
                                  \o <<"Use --env and/or --app to specify which one.">>,
                         Abort)
               ELSE asks(<<>>, Request("GET", <<"api", "v1", "secrets", matches[1].id>>,
                                       GetParams(c.version), EmptyDict))
          [] c.op = "set" ->
               IF first # 0
               THEN asks(<<>>, JsonRequest("PUT", <<"api", "v1", "secrets", secrets[first].id>>,
                                           UpdateBody(c.value,
                                                      IF c.description = "" THEN None
                                                      ELSE c.description,
                                                      {tags})))
               ELSE asks(<<>>, JsonRequest("POST", <<"api", "v1", "secrets">>,
                                           CreateBody(c.key_name, c.value, tags, c.description,
                                                      c.value_type, NoDict)))
          [] c.op = "delete" ->
               LET shown == IF c.force THEN <<>>
                            ELSE <<"Secret: " \o secrets[first].key_name,
                                   "Tags: " \o TagsStr(secrets[first].tags)>>
               IN  IF first = 0 THEN ends(<<missing>>, Abort)
                   ELSE IF ~c.force /\ ~yes THEN ends(shown, Returned(NoneValue))
                   ELSE asks(shown, SimpleRequest([op |-> "delete_secret",
                                                   secret_id |-> secrets[first].id]))
          [] c.op = "versions" ->
               IF first = 0 THEN ends(<<missing>>, Abort)
               ELSE asks(<<>>, Request("GET", <<"api", "v1", "secrets", secrets[first].id,
                                                "versions">>, EmptyDict, EmptyDict))

\* list_secrets returns or raises, and the command goes on from there.
Looked ==
    /\ pc = "awaiting"
    /\ Len(sent) = 1
    /\ TransportReady(wire, sent[1])
    /\ \E yes \in BOOLEAN :
         LET o == RequestOutcome(wire)
             step == IF o # NoOutcome
                     THEN [print |-> <<FailedLine(call.op, o.message)>>, request |-> <<>>,
                           outcome |-> Abort]
                     ELSE AfterLookup(call, wire.data, yes)
         IN  /\ console' = console \o step.print
             /\ result' = IF o # NoOutcome THEN result ELSE wire.data
             /\ IF Len(step.request) = 0
                THEN outcome' = step.outcome /\ pc' = "done" /\ UNCHANGED <<sent, wire>>
                ELSE sent' = sent \o step.request /\ wire' = Pending /\ UNCHANGED <<pc, outcome>>
    /\ UNCHANGED <<clientVars, call, store, issued, groups, journal, local>>

\* What a command does with the answer to its second request `req`: o is
\* what _request raised, NoOutcome when it returned, and body the decoded
\* answer.
AfterAnswer(c, req, o, body) ==
    LET ends(lines, how) == [print |-> lines, outcome |-> how] IN
    IF o # NoOutcome
    THEN IF c.op = "get" /\ Has404(o.message)
         THEN ends(IF c.output = "json"
                   THEN <<"{\"error\": \"Secret value not found in vault\"}">>
                   ELSE <<"Secret '" \o c.key_name \o "' exists but has no value in vault",
                          "This secret may need to be re-saved to store its value.">>,
                   Abort)
         ELSE ends(<<FailedLine(c.op, o.message)>>, Abort)
    ELSE CASE c.op = "get" ->
                ends(IF c.output = "json" THEN <<Dumps(body)>>
                     ELSE <<body.key_name>>
                              \o (IF DOMAIN body.tags # {} THEN <<"Tags: " \o TagsStr(body.tags)>>
                                  ELSE <<>>)
                              \o <<"Version: v" \o ToString(body.version)>>
                              \o (IF IntTruthy(c.version)
                                  THEN <<"(Showing version " \o ToString(IntValue(c.version)) \o ")">>
                                  ELSE <<>>)
                              \o <<"Value: " \o body.value>>,
                     Returned(NoneValue))
           [] c.op = "set" ->
                ends(<<IF req.method = "PUT"
                       THEN "Updated secret: " \o c.key_name \o " (v" \o ToString(body.version) \o ")"
                       ELSE "Created secret: " \o c.key_name>>, Returned(NoneValue))
           [] c.op = "delete" ->
                ends(<<"Deleted secret: " \o c.key_name>>, Returned(NoneValue))
           [] c.op = "versions" ->
                ends(IF Len(body.versions) = 0 THEN <<"No version history found">>
                     ELSE <<"Version History: " \o c.key_name>>
                              \o [i \in 1..Len(body.versions) |->
                                    "v" \o ToString(body.versions[i].version) \o " -"
                                        \o (IF body.versions[i].version
                                                  = (IF "current_version" \in DOMAIN body
                                                     THEN body.current_version ELSE 1)
                                            THEN " >" ELSE "")]
                              \o <<"Use 'vezor get " \o c.key_name
                                       \o " --version N' to view a specific version">>,
                     Returned(NoneValue))

\* The second request returns or raises, and the command ends.
Answered ==
    /\ pc = "awaiting"
    /\ Len(sent) = 2
    /\ TransportReady(wire, sent[2])
    /\ LET o == RequestOutcome(wire)
           step == AfterAnswer(call, sent[2], o, IF o # NoOutcome THEN NoneValue ELSE wire.data[1])
       IN  console' = console \o step.print /\ outcome' = step.outcome
    /\ pc' = "done"
    /\ UNCHANGED <<clientVars, call, sent, wire, result, store, issued, groups, journal, local>>

\* GET /api/v1/secrets/{id}/versions: the version records, oldest or newest
\* first, with or without the number of the current version beside them.
ServerHistory ==
    /\ wire.kind = "pending"
    /\ Last(sent).method = "GET"
    /\ Len(Last(sent).endpoint) = 5
    /\ LET i == Position(store, Last(sent).endpoint[4]) IN
       IF i = 0 THEN wire' = NotFound
       ELSE \E newest_first, with_current \in BOOLEAN :
              LET last == store[i].version
                  records == [n \in 1..last |->
                                [version |-> IF newest_first THEN last + 1 - n ELSE n]]
              IN  wire' = Ok(<<IF with_current
                               THEN [versions |-> records, current_version |-> last]
                               ELSE [versions |-> records]>>)
    /\ UNCHANGED <<clientVars, pc, call, sent, outcome, result, store, issued, groups, journal, console, local>>

\* The command lines of the model.
Commands ==
    [op : {"get"}, key_name : {"DB", "db", "API"}, env : {None, "prod"}, app : {None},
     version : {NoInt, {2}}, output : {"text", "json"}]
      \cup [op : {"set"}, key_name : {"DB"}, env : {"prod"}, app : {"api"},
            tag : {EmptyDict, [region |-> "us"]}, value : {"x"}, description : {""},
            value_type : {"string"}]
      \cup [op : {"delete"}, key_name : {"DB"}, env : {None, "prod"}, force : BOOLEAN]
      \cup [op : {"versions"}, key_name : {"DB"}, env : {None, "prod"}]

\* The state after get_client(): the server holds a secret DB of prod/api,
\* alone or with a second one of that name, in another region or in dev.
InitCli ==
    /\ token = "t1"
    /\ organization_id = "o1"
    /\ session_headers = InitHeaders("t1", "o1")
    /\ pc = "idle"
    /\ call = NoCall
    /\ sent = <<>>
    /\ wire = Idle
    /\ outcome = NoOutcome
    /\ result = <<>>
    /\ \E others \in {<<>>,
                      <<[env |-> "prod", app |-> "api", region |-> "us"]>>,
                      <<[env |-> "dev", app |-> "api", region |-> "eu"]>>} :
         store = <<Stored("s1", CreateBody("DB", "a", [env |-> "prod", app |-> "api",
                                                       region |-> "eu"], "", "string", NoDict))>>
                     \o [i \in 1..Len(others) |->
                           Stored("s2", CreateBody("db", "b", others[i], "", "string", NoDict))]
    /\ issued = Len(store)
    /\ groups = <<>>
    /\ journal = <<>>
    /\ console = <<>>
    /\ local = <<>>

NextCli ==
    \/ \E c \in Commands :
          /\ c.op = "set" => issued < MaxIssued
                                /\ \A i \in 1..Len(store) : store[i].version < MaxVersion
          /\ Command(c)
    \/ ServerPages
    \/ ServerShows
    \/ ServerHistory
    \/ ServerCreates
    \/ ServerUpdates
    \/ ServerDeletes
    \/ \E r \in [status : {404}, text : {"", "{\"error\":\"denied\"}"}] : ServerResponds(r)
    \/ Looked
    \/ Answered
    \/ Return

SpecCli == InitCli /\ [][NextCli]_vars

----------------------------------------------------------------------------
(* get_secret_by_name while others are at work: a second activity of the   *)
(* caller's program that holds the same VezorClient, or its own, and other *)
(* clients of the server.  journal.shared tells whether the second         *)
(* activity has the caller's client.                                       *)

\* The state after VezorClient(base_url, "t1", "o1"); the server holds the
\* secret DB of prod, alone or with the secret db of dev or API of prod.
InitRace ==
    /\ token = "t1"
    /\ organization_id = "o1"
    /\ session_headers = InitHeaders("t1", "o1")
    /\ pc = "idle"
    /\ call = NoCall
    /\ sent = <<>>
    /\ wire = Idle
    /\ outcome = NoOutcome
    /\ result = <<>>
    /\ \E others \in {<<>>, <<[key_name |-> "db", tags |-> [env |-> "dev", app |-> "api"]]>>,
                      <<[key_name |-> "API", tags |-> [env |-> "prod", app |-> "api"]]>>} :
          store = MakeStore(0, <<[key_name |-> "DB", tags |-> [env |-> "prod", app |-> "api"]]>>
                                   \o others)
    /\ issued = Len(store)
    /\ groups = <<>>
    /\ \E b \in BOOLEAN : journal = [shared |-> b]
    /\ console = <<>>
    /\ local = <<>>

\* The second activity calls set_token or set_organization on the client it
\* shares with the caller while the caller's operation is under way.
SharedSetter ==
    /\ journal.shared
    /\ pc = "awaiting"
    /\ \/ \E t \in Tokens \ {""} :
             /\ token' = t
             /\ session_headers' = SetTokenHeaders(session_headers, t)
             /\ UNCHANGED organization_id
       \/ \E o \in OrgIds \ {""} :
             /\ organization_id' = o
             /\ session_headers' = SetOrganizationHeaders(session_headers, o)
             /\ UNCHANGED token
    /\ UNCHANGED <<pc, call, sent, wire, outcome, result, store, issued, groups, journal, console, local>>

\* Another client deletes a secret while the caller's operation is under way.
OtherDeletes ==
    /\ pc = "awaiting"
    /\ \E i \in 1..Len(store) : store' = SelectSeq(store, LAMBDA x : x.id # store[i].id)
    /\ UNCHANGED <<clientVars, pc, call, sent, wire, outcome, result, issued, groups, journal, console, local>>

NextRace ==
    \/ \E c \in ResolveCalls : get_secret_by_name(c)
    \/ ServerLists
    \/ ServerGets
    \/ \E r \in ErrorResponses : ServerResponds(r)
    \/ SharedSetter
    \/ OtherDeletes
    \/ ResolveListed
    \/ ResolveFetched
    \/ Return

SpecRace == InitRace /\ [][NextRace]_vars

----------------------------------------------------------------------------
(* Two invocations of `set` at a time: the command of the model and a      *)
(* second `set DB --env prod --app api`, run in a process of its own.      *)

\* The second invocation: the server answers its list request, and journal
\* keeps the id of the secret it takes to update, "" when it found none;
\* later the server carries out its update or create request.
OtherSet ==
    \/ /\ journal = <<>>
       /\ LET listing == ServerList(store, ("limit" :> ToString(Len(store)))
                             @@ ListParams([env |-> "prod", app |-> "api"], "DB", NoInt, 0))
              first == FirstMatch(listing, "DB")
          IN  journal' = <<IF first = 0 THEN "" ELSE listing[first].id>>
       /\ UNCHANGED <<clientVars, pc, call, sent, wire, outcome, result, store, issued, groups, console, local>>
    \/ /\ Len(journal) = 1
       /\ \A i \in 1..Len(store) : store[i].version < MaxVersion
       /\ LET tags == [env |-> "prod", app |-> "api"]
              i == Position(store, journal[1])
          IN  IF journal[1] = ""
              THEN /\ issued < MaxIssued
                   /\ store' = Append(store, Stored("s" \o ToString(issued + 1),
                                                    CreateBody("DB", "y", tags, "", "string", NoDict)))
                   /\ issued' = issued + 1
              ELSE /\ store' = IF i = 0 THEN store
                               ELSE [store EXCEPT ![i] = Updated(@, UpdateBody("y", None, {tags}))]
                   /\ issued' = issued
       /\ journal' = <<>>
       /\ UNCHANGED <<clientVars, pc, call, sent, wire, outcome, result, groups, console, local>>

NextSet ==
    \/ \E c \in Commands :
          /\ c.op \in {"set", "delete"}
          /\ c.op = "set" => issued < MaxIssued
                                /\ \A i \in 1..Len(store) : store[i].version < MaxVersion
          /\ Command(c)
    \/ ServerPages
    \/ ServerCreates
    \/ ServerUpdates
    \/ ServerDeletes
    \/ OtherSet
    \/ Looked
    \/ Answered
    \/ Return

SpecSet == InitCli /\ [][NextSet]_vars

----------------------------------------------------------------------------
(* src/config.py: CLIConfig, and get_client, get_client_no_org and login   *)
(* of src/vezor_cli.py.  local.file holds the lines of ~/.vezor/config (a  *)
(* file that does not exist reads as no lines), local.environ the          *)
(* environment variables (None when unset), local.keyring the token the    *)
(* keyring holds, and local.broken tells that the keyring raises.  journal *)
(* notes, per key, the value of the last set since the key was cleared.    *)

\* The setters of the model write while the file is shorter than this.
MaxLines == 2

\* The keys and values the config file takes in the model.
ConfigEntries ==
    {"api_url", "supabase_url", "supabase_anon_key", "organization_id", "organization_name"}
        \X {"a", " b", ""}

\* f'{key}={value}\n'
ConfigLine(key, value) == key \o "=" \o value \o "\n"

\* A line read back: the key it starts with, and line.split('=', 1)[1].strip().
Entry(line) ==
    LET e == CHOOSE e \in ConfigEntries : ConfigLine(e[1], e[2]) = line
        Strip(v) == IF v = " b" THEN "b" ELSE v
    IN  <<e[1], Strip(e[2])>>

\* CLIConfig._get_config_value: the value of the first line of the key.
get_config_value(l, key) ==
    LET found == SelectSeq(l.file, LAMBDA line : Entry(line)[1] = key) IN
    IF found # <<>> THEN Entry(found[1])[2] ELSE None

\* A setter that appends the new line and keeps the old ones.
set_config_value_appending(l, key, value) ==
    [l EXCEPT !.file = Append(@, ConfigLine(key, value))]

\* CLIConfig._set_config_value: the lines of other keys, then the new line.
set_config_value(l, key, value) ==
    [l EXCEPT !.file = Append(SelectSeq(@, LAMBDA line : Entry(line)[1] # key),
                              ConfigLine(key, value))]

\* CLIConfig.clear_organization: the lines that do not start with
\* 'organization_'.
clear_organization(l) ==
    [l EXCEPT !.file = SelectSeq(@, LAMBDA line :
                           Entry(line)[1] \notin {"organization_id", "organization_name"})]

\* Getters that ask the config file before the environment.
SettingFileFirst(l, name) ==
    LET variable == CASE name = "api_url" -> "VEZOR_API_URL"
                      [] name = "supabase_url" -> "SUPABASE_URL"
                      [] name = "supabase_anon_key" -> "SUPABASE_ANON_KEY"
        default == CASE name = "api_url" -> "https://api.vezor.io"
                     [] name = "supabase_url" -> "https://zdtmkvbyucguhrfcrcac.supabase.co"
                     [] name = "supabase_anon_key" -> "eyJhbGciOiJIUzI1NiIsInR5cCI6IkpXVCJ9"
        env_value == l.environ[variable]
        config_value == get_config_value(l, name)
    IN  IF Truthy(config_value) THEN config_value
        ELSE IF Truthy(env_value) THEN env_value
        ELSE default

\* CLIConfig.get_api_url, get_supabase_url and get_supabase_anon_key.
\* The header of DEFAULT_SUPABASE_ANON_KEY stands for the whole key.
Setting(l, name) ==
    LET variable == CASE name = "api_url" -> "VEZOR_API_URL"
                      [] name = "supabase_url" -> "SUPABASE_URL"
                      [] name = "supabase_anon_key" -> "SUPABASE_ANON_KEY"
        default == CASE name = "api_url" -> "https://api.vezor.io"
                     [] name = "supabase_url" -> "https://zdtmkvbyucguhrfcrcac.supabase.co"
                     [] name = "supabase_anon_key" -> "eyJhbGciOiJIUzI1NiIsInR5cCI6IkpXVCJ9"
        env_value == l.environ[variable]
        config_value == get_config_value(l, name)
    IN  IF Truthy(env_value) THEN env_value
        ELSE IF Truthy(config_value) THEN config_value
        ELSE default

\* A get_token that lets the keyring's exception through as its value.
get_token_unguarded(l) == l.keyring

\* CLIConfig.get_token: an exception of the keyring is caught.
get_token(l) == IF l.broken THEN None ELSE l.keyring

\* No command has run yet, and the config file is empty.
InitLocal ==
    /\ token = None
    /\ organization_id = None
    /\ session_headers = EmptyDict
    /\ pc = "shell"
    /\ call = NoCall
    /\ sent = <<>>
    /\ wire = Idle
    /\ outcome = NoOutcome
    /\ result = <<>>
    /\ store = <<>>
    /\ issued = 0
    /\ groups = <<>>
    /\ journal = [k \in {e[1] : e \in ConfigEntries} |-> None]
    /\ console = <<>>
    /\ \E e \in {<<None, None, None, FALSE>>, <<"", None, "t1", FALSE>>,
                 <<"e", None, "t1", TRUE>>, <<None, "e", "t1", FALSE>>} :
          local = [file |-> <<>>,
                   environ |-> [VEZOR_API_URL |-> e[1], SUPABASE_URL |-> e[2],
                                SUPABASE_ANON_KEY |-> None],
                   keyring |-> e[3], broken |-> e[4]]

\* A setter of CLIConfig writes a key, or clear_organization runs, before
\* the commands and getters of the run.
Configure ==
    /\ pc = "shell"
    /\ outcome = NoOutcome
    /\ console = <<>>
    /\ \/ \E e \in ConfigEntries :
             /\ Len(local.file) < MaxLines
             /\ local' = set_config_value(local, e[1], e[2])
             /\ journal' = [journal EXCEPT ![e[1]] = e[2]]
             /\ call' = [op |-> "set_config_value", key |-> e[1], value |-> e[2]]
       \/ /\ local' = clear_organization(local)
          /\ journal' = [journal EXCEPT !["organization_id"] = None,
                                        !["organization_name"] = None]
          /\ call' = [op |-> "clear_organization", key |-> "", value |-> ""]
    /\ outcome' = NoOutcome
    /\ UNCHANGED <<clientVars, pc, sent, wire, result, store, issued, groups, console>>

\* A getter of CLIConfig returns.
Getter ==
    /\ pc = "shell"
    /\ \E op \in {"get_api_url", "get_supabase_url", "get_supabase_anon_key", "get_token",
                  "is_authenticated", "_get_config_value"},
          key \in {e[1] : e \in ConfigEntries} :
          /\ op # "_get_config_value" => key = "api_url"
          /\ call' = [op |-> op, key |-> key, value |-> ""]
          /\ outcome' = CASE op = "get_api_url" -> Returned(Setting(local, "api_url"))
                          [] op = "get_supabase_url" -> Returned(Setting(local, "supabase_url"))
                          [] op = "get_supabase_anon_key" ->
                                 Returned(Setting(local, "supabase_anon_key"))
                          [] op = "get_token" -> Returned(get_token(local))
                          [] op = "is_authenticated" -> Returned(get_token(local) # None)
                          [] op = "_get_config_value" -> Returned(get_config_value(local, key))
    /\ UNCHANGED <<clientVars, pc, sent, wire, result, store, issued, groups, journal, console, local>>

\* get_client (need_org) and get_client_no_org: the client, or an abort.
get_client ==
    /\ pc = "shell"
    /\ \E need_org \in BOOLEAN :
         LET t == get_token(local)
             org_id == IF need_org THEN get_config_value(local, "organization_id") ELSE None
         IN  /\ call' = [op |-> "get_client", key |-> "", value |-> "", need_org |-> need_org]
             /\ IF ~Truthy(t)
                THEN /\ console' = <<"Error: Not authenticated. Run 'vezor login' first.">>
                     /\ outcome' = Abort
                     /\ pc' = "aborted"
                     /\ UNCHANGED clientVars
                ELSE IF need_org /\ ~Truthy(org_id)
                THEN /\ console' = <<"Error: No organization selected. Run 'vezor orgs' to select one.">>
                     /\ outcome' = Abort
                     /\ pc' = "aborted"
                     /\ UNCHANGED clientVars
                ELSE /\ token' = t
                     /\ organization_id' = org_id
                     /\ session_headers' = InitHeaders(t, org_id)
                     /\ console' = <<>>
                     /\ outcome' = NoOutcome
                     /\ pc' = "idle"
    /\ UNCHANGED <<sent, wire, result, store, issued, groups, journal, local>>

\* login, for the user me@example.com: sign_in returns a session or raises,
\* set_token stores the token or raises on a keyring that raises, and
\* list_organizations returns the user's organizations or raises.
login ==
    /\ pc = "shell"
    /\ \E signed_in, listed \in BOOLEAN, orgs \in {<<>>, <<"a">>, <<"a", " b">>} :
         /\ call' = [op |-> "login", key |-> "", value |-> "", orgs |-> orgs, listed |-> listed]
         /\ IF ~signed_in \/ local.broken
            THEN /\ console' = <<"Signing in to Vezor...",
                                 IF ~signed_in
                                 THEN "Sign in failed: Sign in failed: No session returned from Supabase"
                                 ELSE "Sign in failed: Failed to store token in keychain: locked">>
                 /\ outcome' = Abort
                 /\ UNCHANGED <<local, journal>>
            ELSE LET l1 == [local EXCEPT !.keyring = "t2"] IN
                 /\ outcome' = Returned(NoneValue)
                 /\ IF listed /\ Len(orgs) = 1
                    THEN /\ local' = set_config_value(
                                         set_config_value(l1, "organization_id", orgs[1]),
                                         "organization_name", orgs[1])
                         /\ journal' = [journal EXCEPT !["organization_id"] = orgs[1],
                                                       !["organization_name"] = orgs[1]]
                         /\ console' = <<"Signing in to Vezor...", "Signed in successfully as me@example.com",
                                         "Organization: " \o orgs[1]>>
                    ELSE /\ local' = l1
                         /\ journal' = journal
                         /\ console' = <<"Signing in to Vezor...", "Signed in successfully as me@example.com">>
                                           \o (IF ~listed THEN <<>>
                                               ELSE IF Len(orgs) > 1
                                               THEN <<"", "You belong to " \o ToString(Len(orgs))
                                                          \o " organizations.",
                                                      "Run vezor orgs to select one.">>
                                               ELSE <<"", "No organizations found.",
                                                      "Run vezor org create <name> to create one.">>)
    /\ UNCHANGED <<clientVars, pc, sent, wire, result, store, issued, groups>>

NextLocal ==
    \/ Configure
    \/ Getter
    \/ get_client
    \/ login
    \/ \E c \in SimpleCalls : StartCall(c)
    \/ \E r \in ErrorResponses : ServerResponds(r)
    \/ FinishCall
    \/ Return

SpecLocal == InitLocal /\ [][NextLocal]_vars

----------------------------------------------------------------------------
(* Claims about update_secret and the versions of a secret.                *)

\* The arguments of update_secret that the caller gave (that are not None).
Supplied(c) ==
    {k \in {"value", "description", "tags"} :
        IF k = "tags" THEN c.tags # NoDict ELSE c[k] # None}

\* C11: the body of an update request holds exactly the fields the caller
\* supplied, each with the value supplied, and no field for an argument left
\* as None; so an update without 'value' leaves the versions the server holds
\* for the secret as the caller wrote them, and the answer shows the version
\* number and the value of the last write.
C11_UpdateSendsSuppliedFieldsOnly ==
    (call.op = "update_secret" /\ Len(sent) = 1) =>
        LET body == sent[1].json
            id   == call.secret_id
        IN  /\ DOMAIN body = Supplied(call)
            /\ "value" \in DOMAIN body => body["value"] = call.value
            /\ "description" \in DOMAIN body => body["description"] = call.description
            /\ "tags" \in DOMAIN body => body["tags"] = DictValue(call.tags)
            /\ call.value = None =>
                /\ \A i \in 1..Len(store) :
                       store[i].id = id =>
                           /\ store[i].history = journal[id].values
                           /\ store[i].version = Len(journal[id].values)
                /\ (pc = "done" /\ outcome.kind = "return") =>
                       /\ outcome.value.version = Len(journal[id].values)
                       /\ outcome.value.value = Last(journal[id].values)

\* An update of description and tags alone has returned for a secret at
\* version 2, and the server has taken both fields over.
C11_Witness ==
    /\ pc = "done"
    /\ call.op = "update_secret"
    /\ call.value = None
    /\ call.description = "d"
    /\ call.tags = {[env |-> "dev"]}
    /\ outcome.kind = "return"
    /\ outcome.value.version = 2
    /\ outcome.value.description = "d"
    /\ outcome.value.tags = [env |-> "dev"]

\* C12: the versions the answers give to a secret's writes are 1, 2, 3, ...
\* in the order of the writes; get_secret(id, version=n) returns, for every
\* version n written so far, the value of the n-th write whatever was written
\* later, and get_secret(id) returns the last write and its version number.
C12_VersionsCountUpAndKeepTheirValues ==
    /\ \A id \in DOMAIN journal :
           \A k \in 1..Len(journal[id].versions) : journal[id].versions[k] = k
    /\ (pc = "done" /\ call.op = "get_secret" /\ call.secret_id \in DOMAIN journal) =>
           LET written == journal[call.secret_id].values IN
           /\ outcome.kind = "return" =>
                  IF call.version = NoInt
                  THEN /\ outcome.value.value = Last(written)
                       /\ outcome.value.version = Len(written)
                  ELSE /\ IntValue(call.version) \in 1..Len(written)
                       /\ outcome.value.value = written[IntValue(call.version)]
                       /\ outcome.value.version = IntValue(call.version)
           /\ (wire.kind = "response" /\ written # <<>>
                  /\ (call.version # NoInt => IntValue(call.version) <= Len(written)))
                  => outcome.kind = "return"

\* A secret has been written three times, the first and the last value
\* differ, and get_secret(id, version=1) has returned the first.
C12_Witness ==
    /\ pc = "done"
    /\ call.op = "get_secret"
    /\ call.version = {1}
    /\ call.secret_id \in DOMAIN journal
    /\ journal[call.secret_id].versions = <<1, 2, 3>>
    /\ journal[call.secret_id].values[1] # journal[call.secret_id].values[3]
    /\ outcome.kind = "return"
    /\ outcome.value.value = journal[call.secret_id].values[1]

\* C13: once delete_secret(id) has returned, every get_secret(id), with or
\* without a version, that the server answers raises VezorNotFoundError, no
\* list_secrets result holds a secret of that id, and get_secret_by_name
\* returns no secret of that id.
C13_DeletedSecretIsGone ==
    \A id \in DOMAIN journal :
        (journal[id].deleted /\ pc = "done") =>
            /\ (call.op = "get_secret" /\ call.secret_id = id /\ wire.kind = "response")
                   => outcome.error = "VezorNotFoundError"
            /\ (call.op = "list_secrets" /\ outcome.kind = "return")
                   => \A i \in 1..Len(outcome.value.secrets) : outcome.value.secrets[i].id # id
            /\ (call.op = "get_secret_by_name" /\ outcome.kind = "return"
                   /\ outcome.value # NoneValue)
                   => outcome.value.id # id

\* s1 has been deleted, a secret of the same name has been created after
\* it, and get_secret_by_name has returned that later secret.
C13_Witness ==
    /\ pc = "done"
    /\ call.op = "get_secret_by_name"
    /\ "s1" \in DOMAIN journal
    /\ journal["s1"].deleted
    /\ outcome.kind = "return"
    /\ outcome.value # NoneValue
    /\ outcome.value.id = "s2"

----------------------------------------------------------------------------
(* Claims about create_secret.                                             *)

\* C14: every create request carries a tag mapping that is not empty, and
\* carries 'path', the lower-case form of key_name, beside key_name, value
\* and tags.
C14_CreateRequestHasTagsAndPath ==
    (call.op = "create_secret" /\ Len(sent) = 1) =>
        LET body == sent[1].json IN
        /\ {"key_name", "value", "tags", "path"} \subseteq DOMAIN body
        /\ body["key_name"] = call.key_name
        /\ body["value"] = call.value
        /\ body["path"] = Lower(call.key_name)
        /\ body["tags"] = call.tags
        /\ body["tags"] # EmptyDict

----------------------------------------------------------------------------
(* Claims about groups.                                                    *)

\* The caller has pulled a group as JSON, asked for its count, fetched the
\* group and listed the secrets of the group's tags, one call after the other.
RunComplete == Len(journal.seen) = 4

C16_PullReturnsTextOrDecodedBody ==
    (pc = "done" /\ call.op = "pull_group_secrets" /\ wire.kind = "response") =>
        IF call.name \notin DOMAIN groups
        THEN outcome.kind = "raise" /\ outcome.error = "VezorNotFoundError"
        ELSE /\ outcome.kind = "return"
             /\ call.format \in {"env", "export"} => outcome.value = wire.text
             /\ call.format = "json" =>
                    outcome.value = wire.data[1] /\ outcome.value.group = call.name

\* A pull of the group "prod api" in the export format has returned the
\* server's text of one line.
C16_Witness ==
    /\ pc = "done"
    /\ call.op = "pull_group_secrets"
    /\ call.name = "prod api"
    /\ call.format = "export"
    /\ outcome.kind = "return"
    /\ outcome.value = <<"export DB=a">>
    /\ wire.text = <<"export DB=a">>

----------------------------------------------------------------------------
(* Claims about export_env and import_env.                                 *)

\* The caller imports, into the environment its last export asked for, the
\* text that export returned.
RoundTrip ==
    /\ call.op = "import_env"
    /\ Len(journal.seen) = 1
    /\ journal.group # ""
    /\ call.environment = journal.group
    /\ call.env_content = journal.seen[1]

\* The key/value pairs an environment holds.
Pairs(st, env) ==
    {<<st[i].key_name, st[i].value>> : i \in {j \in 1..Len(st) : st[j].tags["env"] = env}}

----------------------------------------------------------------------------
(* Claims about the commands get, set, delete and versions.                *)

\* The secrets of the listing the running command got that carry its name,
\* case ignored.
NameCandidates == Matches(result, call.key_name)

\* C18: when the listing of `get` holds more than one secret of the name,
\* the command ends aborted with the list request its only request, and
\* its output has, between a heading and a hint, one line per candidate,
\* the lines of two candidates with different tags being different.
C18_AmbiguousGetListsCandidates ==
    (call.op = "get" /\ pc = "done" /\ Len(NameCandidates) > 1) =>
        /\ Len(sent) = 1
        /\ outcome = Abort
        /\ Len(console) = Len(NameCandidates) + 2
        /\ \A i, j \in 1..Len(NameCandidates) :
              NameCandidates[i].tags # NameCandidates[j].tags => console[1 + i] # console[1 + j]

\* C19: when `get` has found exactly one secret of the name and the request
\* for that secret is answered 404, the command says that the secret exists
\* but has no value, whatever the body of the answer.
C19_NotFoundAfterMatchIsNoValue ==
    (call.op = "get" /\ pc = "done" /\ Len(sent) = 2 /\ wire.kind = "response"
        /\ wire.status = 404) =>
        /\ outcome = Abort
        /\ console[1] = IF call.output = "json"
                        THEN "{\"error\": \"Secret value not found in vault\"}"
                        ELSE "Secret '" \o call.key_name \o "' exists but has no value in vault"

\* C20: when the listing of `set`, `delete` or `versions` holds more than
\* one secret of the name, the command sends no request after the list
\* request.
C20_AmbiguousSetDeleteVersionsSendNothing ==
    (call.op \in {"set", "delete", "versions"} /\ Len(NameCandidates) > 1) => Len(sent) = 1

----------------------------------------------------------------------------
(* Claims about the requests of an operation: their number, their order    *)
(* and what becomes of an error.                                           *)

\* C25: a get_secret_by_name that returns a secret has sent exactly two
\* requests: first the list request with search = key_name and limit = 100,
\* then the request for the id of the matched secret of the listing, whose
\* answer it returns; a second request is in `sent` only after the list
\* request was answered with a listing that holds a match, and the call has
\* no outcome while it waits for an answer.
C25_ListThenGetById ==
    call.op = "get_secret_by_name" =>
        /\ (pc = "done" /\ outcome.kind = "return" /\ outcome.value # NoneValue) =>
              /\ Len(sent) = 2
              /\ sent[1].method = "GET"
              /\ sent[1].endpoint = <<"api", "v1", "secrets">>
              /\ "search" \in DOMAIN sent[1].params
              /\ sent[1].params["search"] = call.key_name
              /\ "limit" \in DOMAIN sent[1].params
              /\ sent[1].params["limit"] = "100"
              /\ sent[2].method = "GET"
              /\ outcome.value.id = sent[2].endpoint[4]
        /\ Len(sent) <= 2
        /\ Len(sent) = 2 =>
              /\ FirstMatch(result, call.key_name) # 0
              /\ sent[2].endpoint =
                    <<"api", "v1", "secrets", result[FirstMatch(result, call.key_name)].id>>
        /\ pc = "awaiting" => outcome = NoOutcome

\* The call returned the secret DB after the list request and the request
\* for its id.
C25_Witness ==
    /\ call.op = "get_secret_by_name"
    /\ pc = "done"
    /\ Len(sent) = 2
    /\ outcome.kind = "return"
    /\ outcome.value # NoneValue
    /\ outcome.value.key_name = "DB"

\* C26 as stated: a call that ended on a response with a status outside 2xx
\* or on a network failure has sent its request once and nothing after it,
\* and has raised.
C26_NoRetryAndNon2xxRaises ==
    (pc = "done" /\ (wire.kind = "failure"
                        \/ (wire.kind = "response" /\ wire.status \notin 200..299))) =>
        /\ Len(sent) = 1
        /\ outcome.kind = "raise"

\* C26 as amended: a call that ended on a response with a 4xx or 5xx status
\* or on a network failure has sent its request once and nothing after it,
\* and has raised; a call that ended on any answer at all has sent its
\* request once.
C26_NoRetryAnd4xx5xxRaises ==
    pc = "done" =>
        /\ Len(sent) = 1
        /\ (wire.kind = "failure" \/ (wire.kind = "response" /\ wire.status \in 400..599)) =>
              outcome.kind = "raise"

\* A call ended on a 503 after its one request and raised VezorAPIError.
C26_Witness ==
    /\ pc = "done"
    /\ wire.kind = "response"
    /\ wire.status = 503
    /\ Len(sent) = 1
    /\ outcome.kind = "raise"
    /\ outcome.error = "VezorAPIError"

----------------------------------------------------------------------------
(* Claims about get_secret_by_name while others are at work.               *)

\* C24: each of the two requests of a get_secret_by_name goes out under the
\* headers the client's session has at that moment, so that a set_token or
\* set_organization in between shows in the second request; and when the
\* second activity has a client of its own, both requests carry the same
\* headers, the token and organization id among them.
C24_RequestsCarryTheSessionOfTheirMoment ==
    /\ [](Len(sent) = 2 /\ ~journal.shared => sent[1].headers = sent[2].headers)
    /\ [][(Len(sent) = 1 /\ Len(sent') = 2) =>
             /\ sent'[1] = sent[1]
             /\ sent'[2].headers = session_headers]_vars

\* The client is shared, and the list request went out for organization o1
\* but the request for the secret for o2.
C24_Witness ==
    /\ journal.shared
    /\ call.op = "get_secret_by_name"
    /\ Len(sent) = 2
    /\ sent[1].headers["X-Organization-Id"] = "o1"
    /\ sent[2].headers["X-Organization-Id"] = "o2"
    /\ sent[1].headers["Authorization"] = sent[2].headers["Authorization"]

\* C27: a get_secret_by_name that returned None has sent the list request
\* only and found no secret of the name in its answer; a call whose request
\* for the matched secret was answered 404 or 401 raised VezorNotFoundError
\* or VezorAuthError; and a call that returned after that request returned
\* the server's answer to it.
C27_SecondRequestDecides ==
    (call.op = "get_secret_by_name" /\ pc = "done") =>
        /\ outcome = Returned(NoneValue) =>
              Len(sent) = 1 /\ ListReturned /\ Candidates = {}
        /\ (Len(sent) = 2 /\ wire.kind = "response" /\ wire.status = 404) =>
              outcome.kind = "raise" /\ outcome.error = "VezorNotFoundError"
        /\ (Len(sent) = 2 /\ wire.kind = "response" /\ wire.status = 401) =>
              outcome.kind = "raise" /\ outcome.error = "VezorAuthError"
        /\ (Len(sent) = 2 /\ outcome.kind = "return") => outcome = Returned(wire.data[1])

\* The listing held the secret, the secret was deleted before the request
\* for it was answered, and the call raised VezorNotFoundError.
C27_Witness ==
    /\ call.op = "get_secret_by_name"
    /\ pc = "done"
    /\ Len(sent) = 2
    /\ Candidates # {}
    /\ \A i \in 1..Len(store) : store[i].id # sent[2].endpoint[4]
    /\ wire.text = "{\"error\":\"denied\"}"
    /\ wire.status = 404
    /\ outcome.error = "VezorNotFoundError"

----------------------------------------------------------------------------
(* Claims about the display of `versions`.                                 *)

\* C21: when `versions` has printed the history the server answered with,
\* the line of a record carries the mark of the current version exactly
\* when the answer names a current version and the record's 'version' is
\* that one, whatever the order of the records; with no current version in
\* the answer no line carries the mark.
C21_CurrentMarkFollowsTheAnswer ==
    (call.op = "versions" /\ pc = "done" /\ outcome.kind = "return" /\ Len(sent) = 2) =>
        LET body == wire.data[1] IN
        \A i \in 1..Len(body.versions) :
            console[1 + i] =
                "v" \o ToString(body.versions[i].version) \o " -"
                    \o (IF "current_version" \in DOMAIN body
                           /\ body.versions[i].version = body.current_version
                        THEN " >" ELSE "")

----------------------------------------------------------------------------
(* Claims about `set` run twice at a time.                                 *)

\* The secrets named DB, case ignored, that carry env=prod and app=api.
SameSecret(st) ==
    {i \in 1..Len(st) : Lower(st[i].key_name) = "db"
                           /\ TagsMatch(st[i].tags, [env |-> "prod", app |-> "api"])}

\* C28: while at most one secret DB of env=prod, app=api exists, no step of
\* two `set DB --env prod --app api` at work, one after the other or at the
\* same time, leaves more than one.
C28_SetMakesNoDuplicate ==
    [][Cardinality(SameSecret(store)) <= 1 => Cardinality(SameSecret(store')) <= 1]_vars

----------------------------------------------------------------------------
(* Claims about the local configuration. *)

\* The keys of the config file.
ConfigKeys == {e[1] : e \in ConfigEntries}

\* The lines of a key in the file.
LinesOf(l, k) == {i \in DOMAIN l.file : Entry(l.file[i])[1] = k}

\* C30 as stated: the file holds at most one line per key, and
\* _get_config_value(k) returns the value of the most recent set of k, None
\* when k was never set or was removed.
C30_ReadsBackWhatWasSet ==
    \A k \in ConfigKeys :
        /\ Cardinality(LinesOf(local, k)) <= 1
        /\ get_config_value(local, k) = journal[k]

\* C30, amended: the file holds at most one line per key;
\* _get_config_value(k) returns the value of the most recent set of k with
\* the whitespace around it stripped, None when k was never set or was
\* removed; setting k leaves the values of all other keys unchanged; and
\* clear_organization removes exactly organization_id and organization_name
\* and leaves every other key unchanged.
C30_ReadsBackTheStrippedValue ==
    /\ [](\A k \in ConfigKeys :
            /\ Cardinality(LinesOf(local, k)) <= 1
            /\ get_config_value(local, k) =
                   IF journal[k] = None THEN None ELSE Entry(ConfigLine(k, journal[k]))[2])
    /\ [][/\ call'.op = "set_config_value" =>
                \A k \in ConfigKeys \ {call'.key} :
                    get_config_value(local', k) = get_config_value(local, k)
          /\ call'.op = "clear_organization" =>
                \A k \in ConfigKeys :
                    get_config_value(local', k) =
                        IF k \in {"organization_id", "organization_name"} THEN None
                        ELSE get_config_value(local, k)]_vars

\* A key set to " b" beside another key has been read back as "b".
C30_Witness ==
    /\ call.op = "_get_config_value"
    /\ journal[call.key] = " b"
    /\ outcome.value = "b"
    /\ Len(local.file) = 2

\* The environment variable, the key and the default of a getter.
SettingOf(op) ==
    CASE op = "get_api_url" -> <<"VEZOR_API_URL", "api_url">>
      [] op = "get_supabase_url" -> <<"SUPABASE_URL", "supabase_url">>
      [] op = "get_supabase_anon_key" -> <<"SUPABASE_ANON_KEY", "supabase_anon_key">>

\* What a getter returns on a machine with no variable set and no file.
DefaultOf(op) ==
    Setting([local EXCEPT !.file = <<>>,
                          !.environ = [v \in DOMAIN local.environ |-> None]], SettingOf(op)[2])

\* C22 as stated: a getter of the API URL, the Supabase URL or the Supabase
\* anon key returns the environment variable's value whenever it is set,
\* otherwise the config-file value whenever the file has one, and the
\* default only when neither is set.
C22_EnvThenFileThenDefault ==
    call.op \in {"get_api_url", "get_supabase_url", "get_supabase_anon_key"} =>
        LET env_value == local.environ[SettingOf(call.op)[1]]
            config_value == get_config_value(local, SettingOf(call.op)[2])
        IN  /\ env_value # None => outcome.value = env_value
            /\ env_value = None /\ config_value # None => outcome.value = config_value
            /\ outcome.value = DefaultOf(call.op) => env_value = None /\ config_value = None

\* C22, amended: the getter returns the environment variable's value
\* whenever it is set to a non-empty string, otherwise the config-file value
\* whenever the file has a non-empty one, and the default only when neither
\* holds a non-empty value.
C22_NonEmptyEnvThenFileThenDefault ==
    call.op \in {"get_api_url", "get_supabase_url", "get_supabase_anon_key"} =>
        LET env_value == local.environ[SettingOf(call.op)[1]]
            config_value == get_config_value(local, SettingOf(call.op)[2])
        IN  /\ Truthy(env_value) => outcome.value = env_value
            /\ ~Truthy(env_value) /\ Truthy(config_value) => outcome.value = config_value
            /\ ~Truthy(env_value) /\ ~Truthy(config_value) =>
                   outcome.value = DefaultOf(call.op)
            /\ outcome.value = DefaultOf(call.op) =>
                   ~Truthy(env_value) /\ ~Truthy(config_value)

\* get_api_url has returned the variable's value over the value of the file.
C22_Witness ==
    /\ call.op = "get_api_url"
    /\ local.environ["VEZOR_API_URL"] = "e"
    /\ get_config_value(local, "api_url") = "a"
    /\ outcome.value = "e"

\* C23: when reading the keyring fails, nothing is raised to the caller:
\* get_token returns None, is_authenticated returns False, get_client and
\* get_client_no_org abort before a client is constructed, and no API
\* request is sent.
C23_UnreadableKeyringIsLoggedOut ==
    local.broken =>
        /\ sent = <<>>
        /\ session_headers = EmptyDict
        /\ call.op = "get_token" => outcome = Returned(None)
        /\ call.op = "is_authenticated" => outcome = Returned(FALSE)
        /\ call.op = "get_client" =>
               /\ outcome = Abort
               /\ pc = "aborted"
               /\ console = <<"Error: Not authenticated. Run 'vezor login' first.">>

\* get_client_no_org has aborted on a keyring that holds a token and cannot
\* be read.
C23_Witness ==
    /\ local.broken
    /\ local.keyring = "t1"
    /\ call.op = "get_client"
    /\ ~call.need_org
    /\ outcome = Abort

\* C29: after a successful login the organization id of the config file is
\* the id of the user's sole organization when the user has exactly one,
\* and absent when the user has none or several or when listing the
\* organizations fails: an id left from an earlier session is never kept.
C29_LoginLeavesNoForeignOrganization ==
    call.op = "login" /\ outcome.kind = "return" =>
        get_config_value(local, "organization_id") =
            IF call.listed /\ Len(call.orgs) = 1 THEN call.orgs[1] ELSE None

====
